---- MODULE Spec2Model ----
(***************************************************************************)
(* Model of the music-metadata-manager synchronization and extraction     *)
(* engine (update_music_metadata.py, extract_music_metadata.py) and of    *)
(* the Audio-Relevance Filter of convert_video_to_mp3.py and the GUI      *)
(* driver and update thread of gui.py.                                    *)
(*                                                                         *)
(* Strings the code inspects character by character (file names, track    *)
(* and disc numbers, tag values) are sequences of one-character strings.  *)
(* A CSV cell that csv.DictReader fills with None (a row shorter than the *)
(* header) is the value None below.                                       *)
(***************************************************************************)
EXTENDS Integers, Sequences, FiniteSets, TLC

VARIABLES
    cfg,        \* the run's inputs: recursive, rename_files, header, fmt (the files'
                \* container), table (the family its rows come from)
    file_dict,  \* the index built before the first row (ordered dict: sequence of [key, path])
    fs,         \* the directory tree of the run with dry_run = False: path -> file content
    stats,      \* its statistics
    fsDry,      \* the directory tree of the run with dry_run = True over the same rows
    statsDry,   \* its statistics
    nrows,      \* rows read so far
    pc,         \* "rows" | "done" (summary printed) | "crashed" (exception left the driver)
    music_data, \* the records extract_tags collected from fs (after the run)
    video,      \* what ffprobe reports of a video: [info, items], items being the pairs
                \* <<tag_key, tag_value>> of info['format']['tags'] in the order of the dict
    tag_i,      \* extract_audio_relevant_metadata: the items its loop has consumed
    metadata,   \* its result mapping, audio field -> value
    fpc,        \* "idle" | "called" | "loop" | "returned"
    given,      \* what the two drivers are given beyond cfg: dry_run, and bad_line, the
                \* number of the data line on which the csv reader raises (0: on none)
    gui_run,    \* update_tags_from_csv_with_callback over the same table and a tree of its
                \* own: [fs, stats, pc, calls], calls being the callbacks of its last row
    update_threads  \* the MetadataUpdateThread objects started by the window: sequence of
                \* [pc, file_dict, nrows, stats]

\* the variables of the synchronization run and of the extraction
syncVars == <<cfg, file_dict, fs, stats, fsDry, statsDry, nrows, pc, music_data>>
\* the variables of the Audio-Relevance Filter
filterVars == <<video, tag_i, metadata, fpc>>

\* the variables of the GUI
guiVars == <<given, gui_run, update_threads>>

vars == <<syncVars, filterVars, guiVars>>

----------------------------------------------------------------------------
(* Bounds *)

MaxRows == 2
\* the tags of a video, beyond the video of the documented example
MaxTags == 2
\* the update runs the user requests from the window
MaxRuns == 2

----------------------------------------------------------------------------
(* Strings *)

E == <<>>
None == <<"None">>

Truthy(v) == v # None /\ v # E

Digits == {"0", "1", "2", "3", "4", "5", "6", "7", "8", "9"}
\* \s of the regular expressions and of str.strip / str.split
Space == {" ", "\t"}
\* [\s\-\._]
Sep == Space \cup {"-", ".", "_"}

LowerLetters == <<"a", "b", "c", "d", "e", "f", "g", "h", "i", "j", "k", "l", "m",
                  "n", "o", "p", "q", "r", "s", "t", "u", "v", "w", "x", "y", "z">>
UpperLetters == <<"A", "B", "C", "D", "E", "F", "G", "H", "I", "J", "K", "L", "M",
                  "N", "O", "P", "Q", "R", "S", "T", "U", "V", "W", "X", "Y", "Z">>

ToUpper == [c \in {LowerLetters[i] : i \in 1..26} |->
              UpperLetters[CHOOSE i \in 1..26 : LowerLetters[i] = c]]
ToLower == [c \in {UpperLetters[i] : i \in 1..26} |->
              LowerLetters[CHOOSE i \in 1..26 : UpperLetters[i] = c]]

UpperChar(c) == IF c \in DOMAIN ToUpper THEN ToUpper[c] ELSE c
LowerChar(c) == IF c \in DOMAIN ToLower THEN ToLower[c] ELSE c

\* str.lower
Lower(s) == [i \in 1..Len(s) |-> LowerChar(s[i])]

\* str.endswith
EndsWith(s, suf) ==
    /\ Len(suf) <= Len(s)
    /\ SubSeq(s, Len(s) - Len(suf) + 1, Len(s)) = suf

\* str.startswith
StartsWith(s, pre) ==
    /\ Len(pre) <= Len(s)
    /\ SubSeq(s, 1, Len(pre)) = pre

\* the length of the longest run of characters of set cs in s from position i on
RECURSIVE Run(_, _, _)
Run(s, i, cs) == IF i <= Len(s) /\ s[i] \in cs THEN 1 + Run(s, i + 1, cs) ELSE 0

\* str.isdigit (on the characters of the model's alphabet)
IsDigit(s) == Len(s) > 0 /\ \A i \in 1..Len(s) : s[i] \in Digits

\* str.zfill(2)
ZFill2(s) == IF Len(s) >= 2 THEN s
             ELSE IF Len(s) = 1 THEN <<"0">> \o s ELSE <<"0", "0">>

DigitVal(c) == CASE c = "0" -> 0 [] c = "1" -> 1 [] c = "2" -> 2 [] c = "3" -> 3
                 [] c = "4" -> 4 [] c = "5" -> 5 [] c = "6" -> 6 [] c = "7" -> 7
                 [] c = "8" -> 8 [] c = "9" -> 9

\* int(s) of a string of digits; any other string of the model raises ValueError
RECURSIVE IntOf(_)
IntOf(s) == IF Len(s) = 0 THEN 0
            ELSE 10 * IntOf(SubSeq(s, 1, Len(s) - 1)) + DigitVal(s[Len(s)])

IntParses(s) == IsDigit(s)

DigitChar(d) == CASE d = 0 -> "0" [] d = 1 -> "1" [] d = 2 -> "2" [] d = 3 -> "3"
                  [] d = 4 -> "4" [] d = 5 -> "5" [] d = 6 -> "6" [] d = 7 -> "7"
                  [] d = 8 -> "8" [] d = 9 -> "9"

\* str(n) of a natural number
RECURSIVE StrOf(_)
StrOf(n) == IF n < 10 THEN <<DigitChar(n)>>
            ELSE StrOf(n \div 10) \o <<DigitChar(n % 10)>>

\* str.strip
RECURSIVE LStrip(_)
LStrip(s) == IF Len(s) > 0 /\ s[1] \in Space THEN LStrip(Tail(s)) ELSE s
RECURSIVE RStrip(_)
RStrip(s) == IF Len(s) > 0 /\ s[Len(s)] \in Space
             THEN RStrip(SubSeq(s, 1, Len(s) - 1)) ELSE s
Strip(s) == RStrip(LStrip(s))

\* os.path.splitext: the extension starts at the last dot, unless only dots precede it
LastDot(s) == IF \E i \in 1..Len(s) : s[i] = "."
              THEN CHOOSE i \in 1..Len(s) : s[i] = "." /\ \A j \in (i+1)..Len(s) : s[j] # "."
              ELSE 0
SplitAt(s) == LET d == LastDot(s)
              IN  IF d > 0 /\ \E j \in 1..(d-1) : s[j] # "." THEN d ELSE Len(s) + 1
SplitBase(s) == SubSeq(s, 1, SplitAt(s) - 1)
SplitExt(s) == SubSeq(s, SplitAt(s), Len(s))

----------------------------------------------------------------------------
(* Paths and the directory tree *)

\* os.path.join(dirname, filename); a directory is named by its path from the input folder
Path(d, n) == [dir |-> d, name |-> n]

\* os.path.basename of a directory
DirBase == [d \in {"R", "R/B", "R/B/B"} |-> IF d = "R" THEN <<"R">> ELSE <<"B">>]

NoPath == [dir |-> "", name |-> E]

Exists(fsx, p) == p \in DOMAIN fsx

----------------------------------------------------------------------------
(* is_audio_file *)

supported_extensions ==
    << <<".", "m", "p", "3">>, <<".", "f", "l", "a", "c">>, <<".", "m", "4", "a">>,
       <<".", "o", "g", "g">>, <<".", "w", "m", "a">> >>

is_audio_file(filename) ==
    \E i \in 1..Len(supported_extensions) :
        EndsWith(Lower(filename), supported_extensions[i])

----------------------------------------------------------------------------
(* Rename Engine: rename_file_with_track_number *)

\* has_track_pattern without the alternative re.match(r'^Track\s+\d+', file_base)
has_track_pattern_digits_only(file_base) ==
    LET n == Run(file_base, 1, Digits)
    IN  n >= 1 /\ Len(file_base) > n /\ file_base[n + 1] \in Sep

\* re.match(r'^\d+[\s\-\._]', file_base) or re.match(r'^Track\s+\d+', file_base)
has_track_pattern(file_base) ==
    \/ LET n == Run(file_base, 1, Digits)
       IN  n >= 1 /\ Len(file_base) > n /\ file_base[n + 1] \in Sep
    \/ /\ StartsWith(file_base, <<"T", "r", "a", "c", "k">>)
       /\ LET w == Run(file_base, 6, Space)
          IN  w >= 1 /\ Run(file_base, 6 + w, Digits) >= 1

\* re.match(r'^\d+\-\d+[\s\-\._]', file_base)
has_disc_track_pattern(file_base) ==
    LET n1 == Run(file_base, 1, Digits)
        n2 == Run(file_base, n1 + 2, Digits)
    IN  /\ n1 >= 1
        /\ Len(file_base) > n1 /\ file_base[n1 + 1] = "-"
        /\ n2 >= 1
        /\ Len(file_base) > n1 + 1 + n2 /\ file_base[n1 + 1 + n2 + 1] \in Sep

\* lines 194-201: the file name already carries the numbering asked for
already_numbered(file_base, disc_number) ==
    \/ Truthy(disc_number) /\ has_disc_track_pattern(file_base)
    \/ ~Truthy(disc_number) /\ has_track_pattern(file_base)

\* new_filename without the test track_number.isdigit() of line 204: every track
\* number is padded
new_filename_padding_all(filename, track_number, disc_number) ==
    LET file_base == SplitBase(filename)
        extension == SplitExt(filename)
        formatted_track == ZFill2(track_number)
        prefix == IF Truthy(disc_number)
                  THEN disc_number \o <<"-">> \o formatted_track
                  ELSE formatted_track
    IN  prefix \o <<" ">> \o file_base \o extension

\* lines 203-218: the new file name
new_filename(filename, track_number, disc_number) ==
    LET file_base == SplitBase(filename)
        extension == SplitExt(filename)
        formatted_track == IF IsDigit(track_number) THEN ZFill2(track_number)
                           ELSE track_number
        prefix == IF Truthy(disc_number)
                  THEN disc_number \o <<"-">> \o formatted_track
                  ELSE formatted_track
    IN  prefix \o <<" ">> \o file_base \o extension

\* os.rename(src, dst): the outcomes, each [raised, fs].  A missing source raises.
\* On an existing destination POSIX replaces it silently and Windows raises
\* FileExistsError: both are outcomes of the code.
os_rename(fsx, src, dst) ==
    IF ~Exists(fsx, src) THEN {[raised |-> TRUE, fs |-> fsx]}
    ELSE LET moved == [p \in (DOMAIN fsx \ {src}) \cup {dst} |->
                          IF p = dst THEN fsx[src] ELSE fsx[p]]
         IN  IF Exists(fsx, dst)
             THEN {[raised |-> FALSE, fs |-> moved], [raised |-> TRUE, fs |-> fsx]}
             ELSE {[raised |-> FALSE, fs |-> moved]}

\* rename_file_with_track_number without the test "if not dry_run" of line 224
rename_without_dry_run_test(fsx, filepath, track_number, dry_run, disc_number) ==
    LET filename == filepath.name
        file_base == SplitBase(filename)
        new_filepath == Path(filepath.dir, new_filename(filename, track_number, disc_number))
    IN  IF already_numbered(file_base, disc_number)
        THEN {[path |-> filepath, fs |-> fsx]}
        ELSE {[path |-> IF o.raised THEN filepath ELSE new_filepath, fs |-> o.fs] :
                 o \in os_rename(fsx, filepath, new_filepath)}

\* The outcomes of rename_file_with_track_number, each [path, fs]: the path returned
\* and the tree left behind.
rename_file_with_track_number(fsx, filepath, track_number, dry_run, disc_number) ==
    LET filename == filepath.name
        file_base == SplitBase(filename)
        new_filepath == Path(filepath.dir, new_filename(filename, track_number, disc_number))
    IN  IF already_numbered(file_base, disc_number)
        THEN {[path |-> filepath, fs |-> fsx]}
        ELSE IF ~dry_run
        THEN {[path |-> IF o.raised THEN filepath ELSE new_filepath, fs |-> o.fs] :
                 o \in os_rename(fsx, filepath, new_filepath)}
        ELSE {[path |-> filepath, fs |-> fsx]}

----------------------------------------------------------------------------
(* Filename Heuristic Parser: extract_track_and_title_from_filename *)

NoMatch == [matched |-> FALSE, track |-> E, title |-> E]

\* (\d+)[\s\-\._]+(.+)$ matched from position p of s.  The separator run is greedy
\* and gives back its last character when nothing is left for (.+).
TrackTitleAt(s, p) ==
    LET n == Run(s, p, Digits)
        q == p + n
        m == Run(s, q, Sep)
    IN  IF n < 1 \/ m < 1 THEN NoMatch
        ELSE IF q + m <= Len(s)
        THEN [matched |-> TRUE, track |-> SubSeq(s, p, q - 1),
              title |-> SubSeq(s, q + m, Len(s))]
        ELSE IF m >= 2
        THEN [matched |-> TRUE, track |-> SubSeq(s, p, q - 1),
              title |-> SubSeq(s, Len(s), Len(s))]
        ELSE NoMatch

\* ^(\d+)[\s\-\._]+(.+)$
Pattern1(s) == TrackTitleAt(s, 1)

\* ^Track\s+(\d+)[\s\-\._]+(.+)$
Pattern2(s) ==
    IF StartsWith(s, <<"T", "r", "a", "c", "k">>) /\ Run(s, 6, Space) >= 1
    THEN TrackTitleAt(s, 6 + Run(s, 6, Space))
    ELSE NoMatch

\* ^CD\d+[\-\._](\d+)[\s\-\._]+(.+)$
Pattern3(s) ==
    LET n == Run(s, 3, Digits)
    IN  IF /\ StartsWith(s, <<"C", "D">>)
           /\ n >= 1
           /\ Len(s) >= 3 + n /\ s[3 + n] \in {"-", ".", "_"}
        THEN TrackTitleAt(s, 3 + n + 1)
        ELSE NoMatch

\* ^Disc\s*\d+[\-\._](\d+)[\s\-\._]+(.+)$
Pattern4(s) ==
    LET w == Run(s, 5, Space)
        n == Run(s, 5 + w, Digits)
    IN  IF /\ StartsWith(s, <<"D", "i", "s", "c">>)
           /\ n >= 1
           /\ Len(s) >= 5 + w + n /\ s[5 + w + n] \in {"-", ".", "_"}
        THEN TrackTitleAt(s, 5 + w + n + 1)
        ELSE NoMatch

\* word.capitalize()
Capitalize(w) == IF Len(w) = 0 THEN w ELSE <<UpperChar(w[1])>> \o Lower(Tail(w))

\* title.strip(); re.sub(r'[\-_\.]+', ' ', title); ' '.join(word.capitalize() for word in
\* title.split()): the words are the runs of characters that are no separator
RECURSIVE CleanTitle(_)
CleanTitle(t) ==
    LET skip == Run(t, 1, Sep)
        rest == SubSeq(t, skip + 1, Len(t))
    IN  IF Len(rest) = 0 THEN E
        ELSE LET k == CHOOSE k \in 1..Len(rest) :
                          /\ \A i \in 1..k : rest[i] \notin Sep
                          /\ (k = Len(rest) \/ rest[k + 1] \in Sep)
                 more == CleanTitle(SubSeq(rest, k + 1, Len(rest)))
             IN  Capitalize(SubSeq(rest, 1, k)) \o
                 (IF Len(more) = 0 THEN E ELSE <<" ">> \o more)

\* the parser with the first pattern of the list alone
extract_track_and_title_first_pattern_only(filename) ==
    LET base_name == SplitBase(filename)
        m == Pattern1(base_name)
    IN  IF m.matched THEN <<m.track, CleanTitle(m.title)>>
        ELSE <<E, CleanTitle(base_name)>>

\* the result as (track_number, title)
extract_track_and_title_from_filename(filename) ==
    LET base_name == SplitBase(filename)
        m == IF Pattern1(base_name).matched THEN Pattern1(base_name)
             ELSE IF Pattern2(base_name).matched THEN Pattern2(base_name)
             ELSE IF Pattern3(base_name).matched THEN Pattern3(base_name)
             ELSE Pattern4(base_name)
    IN  IF m.matched THEN <<m.track, CleanTitle(m.title)>>
        ELSE <<E, CleanTitle(base_name)>>

----------------------------------------------------------------------------
(* Files.  A file's content is [kind, hdr, tags]: kind is the container the  *)
(* bytes really are ("junk" for a malformed file), hdr tells whether an      *)
(* MP3 carries an ID3v2 header, tags maps the native keys the file carries   *)
(* to their values.  A codec opens a file only when the bytes are its own    *)
(* container; otherwise the tag library raises.                              *)

Formats == {"mp3", "flac", "m4a", "ogg", "wma"}

ExtOf == [f \in Formats |->
            CASE f = "mp3" -> supported_extensions[1]
              [] f = "flac" -> supported_extensions[2]
              [] f = "m4a" -> supported_extensions[3]
              [] f = "ogg" -> supported_extensions[4]
              [] f = "wma" -> supported_extensions[5]]

\* the if / elif chain on filepath.lower().endswith(...) of the driver and of process_file
CodecOf(filepath) ==
    LET low == Lower(filepath.name)
    IN  IF EndsWith(low, ExtOf["mp3"]) THEN "mp3"
        ELSE IF EndsWith(low, ExtOf["flac"]) THEN "flac"
        ELSE IF EndsWith(low, ExtOf["m4a"]) THEN "m4a"
        ELSE IF EndsWith(low, ExtOf["ogg"]) THEN "ogg"
        ELSE IF EndsWith(low, ExtOf["wma"]) THEN "wma"
        ELSE "unsupported"

\* the library opens filepath as container k
Opens(fsx, filepath, k) == Exists(fsx, filepath) /\ fsx[filepath].kind = k

\* audio[key] = value on a tag mapping
SetTag(tags, key, value) ==
    [k \in DOMAIN tags \cup {key} |-> IF k = key THEN value ELSE tags[k]]

RECURSIVE SetTags(_, _, _, _)
\* audio[map[col]] = data[col] for every col of cols
SetTags(tags, map, data, cols) ==
    IF cols = {} THEN tags
    ELSE LET col == CHOOSE c \in cols : TRUE
         IN  SetTags(SetTag(tags, map[col], data[col]), map, data, cols \ {col})

\* row.get(col): None for a column the row does not have
Get(data, col) == IF col \in DOMAIN data THEN data[col] ELSE None

\* the file at filepath with its content replaced
Written(fsx, filepath, content) == [fsx EXCEPT ![filepath] = content]

Raised(fsx) == [raised |-> TRUE, fs |-> fsx]
Saved(fsx) == [raised |-> FALSE, fs |-> fsx]

----------------------------------------------------------------------------
(* Format Codecs, write side.  Each gives the outcomes [raised, fs] of one   *)
(* call: whether the call raised to the driver, and the tree it left.        *)

supported_tags == {"album", "album_artist", "artist", "genre", "title",
                   "track_number", "disc_number", "composer", "year", "comment"}

mp3_map == [c \in supported_tags \ {"album_artist"} |->
              CASE c = "title" -> "title" [] c = "artist" -> "artist"
                [] c = "album" -> "album" [] c = "genre" -> "genre"
                [] c = "track_number" -> "tracknumber"
                [] c = "disc_number" -> "discnumber"
                [] c = "composer" -> "composer" [] c = "year" -> "date"
                [] c = "comment" -> "comment"]

\* The ID3 frame behind each key EasyID3 registers.  "comment" is no registered key:
\* assigning it raises EasyID3KeyError, which line 267 swallows.
EasyID3Frame == [k \in {"title", "artist", "album", "genre", "tracknumber",
                        "discnumber", "composer", "date"} |->
                   CASE k = "title" -> "TIT2" [] k = "artist" -> "TPE1"
                     [] k = "album" -> "TALB" [] k = "genre" -> "TCON"
                     [] k = "tracknumber" -> "TRCK" [] k = "discnumber" -> "TPOS"
                     [] k = "composer" -> "TCOM" [] k = "date" -> "TDRC"]

Mp3Frame(col) == EasyID3Frame[mp3_map[col]]

update_mp3_tags(fsx, filepath, data, available_tags, dry_run) ==
    IF dry_run THEN {Saved(fsx)}
    ELSE IF ~Opens(fsx, filepath, "mp3") THEN {Raised(fsx)}
    ELSE
    LET c == fsx[filepath]
        \* lines 263-269: the assignments tried, and those EasyID3 accepts
        tried == {col \in available_tags :
                     col \in DOMAIN mp3_map /\ Truthy(Get(data, col))}
        set == {col \in tried : mp3_map[col] \in DOMAIN EasyID3Frame}
        frame == [col \in set |-> Mp3Frame(col)]
        tags1 == SetTags(c.tags, frame, data, set)
        \* line 272: save writes an ID3 header when a frame is there to write; a tag
        \* that add_tags created and that holds no frame is written or not, by the
        \* library's version
        hdrs == IF c.hdr \/ set # {} THEN {TRUE}
                ELSE IF tried # {} THEN {TRUE, FALSE} ELSE {FALSE}
        \* lines 275-287: ID3(filepath) raises on a file without header; swallowed
        with_aa == "album_artist" \in available_tags /\ Truthy(Get(data, "album_artist"))
        with_disc == "disc_number" \in available_tags /\ Truthy(Get(data, "disc_number"))
        tags2 == IF with_disc
                 THEN SetTag(SetTag(tags1, "TPE2", data["album_artist"]),
                             "TPOS", data["disc_number"])
                 ELSE SetTag(tags1, "TPE2", data["album_artist"])
    IN  {Saved(Written(fsx, filepath,
                       [kind |-> "mp3", hdr |-> h,
                        tags |-> IF with_aa /\ h THEN tags2 ELSE tags1])) : h \in hdrs}

flac_map == [c \in supported_tags |->
               CASE c = "title" -> "TITLE" [] c = "artist" -> "ARTIST"
                 [] c = "album_artist" -> "ALBUMARTIST" [] c = "album" -> "ALBUM"
                 [] c = "genre" -> "GENRE" [] c = "track_number" -> "TRACKNUMBER"
                 [] c = "disc_number" -> "DISCNUMBER" [] c = "composer" -> "COMPOSER"
                 [] c = "year" -> "DATE" [] c = "comment" -> "COMMENT"]

ogg_map == flac_map

wma_map == [c \in supported_tags |->
              CASE c = "title" -> "Title" [] c = "artist" -> "Author"
                [] c = "album_artist" -> "WM/AlbumArtist" [] c = "album" -> "WM/AlbumTitle"
                [] c = "genre" -> "WM/Genre" [] c = "track_number" -> "WM/TrackNumber"
                [] c = "disc_number" -> "WM/PartOfSet" [] c = "composer" -> "WM/Composer"
                [] c = "year" -> "WM/Year" [] c = "comment" -> "Description"]

m4a_map == [c \in supported_tags \ {"track_number", "disc_number"} |->
              CASE c = "title" -> "(c)nam" [] c = "artist" -> "(c)ART"
                [] c = "album_artist" -> "aART" [] c = "album" -> "(c)alb"
                [] c = "genre" -> "(c)gen" [] c = "composer" -> "(c)wrt"
                [] c = "year" -> "(c)day" [] c = "comment" -> "(c)cmt"]

\* the loop of MappedCols without the test data.get(csv_col): an empty cell is written
MappedColsWithEmpty(map, data, available_tags) ==
    {col \in available_tags : col \in DOMAIN map /\ Get(data, col) # None}

\* the loop "for csv_col in available_tags: if csv_col in map and data.get(csv_col)"
MappedCols(map, data, available_tags) ==
    {col \in available_tags : col \in DOMAIN map /\ Truthy(Get(data, col))}

\* update_flac_tags without the test "if not dry_run" of line 296
update_flac_tags_without_dry_run_test(fsx, filepath, data, available_tags, dry_run) ==
    IF ~Opens(fsx, filepath, "flac") THEN {Raised(fsx)}
    ELSE LET c == fsx[filepath]
         IN  {Saved(Written(fsx, filepath,
                 [c EXCEPT !.tags = SetTags(c.tags, flac_map, data,
                                            MappedCols(flac_map, data, available_tags))]))}

update_flac_tags(fsx, filepath, data, available_tags, dry_run) ==
    IF dry_run THEN {Saved(fsx)}
    ELSE IF ~Opens(fsx, filepath, "flac") THEN {Raised(fsx)}
    ELSE LET c == fsx[filepath]
         IN  {Saved(Written(fsx, filepath,
                 [c EXCEPT !.tags = SetTags(c.tags, flac_map, data,
                                            MappedCols(flac_map, data, available_tags))]))}

update_ogg_tags(fsx, filepath, data, available_tags, dry_run) ==
    IF dry_run THEN {Saved(fsx)}
    ELSE IF ~Opens(fsx, filepath, "ogg") THEN {Raised(fsx)}
    ELSE LET c == fsx[filepath]
         IN  {Saved(Written(fsx, filepath,
                 [c EXCEPT !.tags = SetTags(c.tags, ogg_map, data,
                                            MappedCols(ogg_map, data, available_tags))]))}

update_wma_tags(fsx, filepath, data, available_tags, dry_run) ==
    IF dry_run THEN {Saved(fsx)}
    ELSE IF ~Opens(fsx, filepath, "wma") THEN {Raised(fsx)}
    ELSE LET c == fsx[filepath]
         IN  {Saved(Written(fsx, filepath,
                 [c EXCEPT !.tags = SetTags(c.tags, wma_map, data,
                                            MappedCols(wma_map, data, available_tags))]))}

\* M4aPair writing (number, 0) whatever pair the file carries
M4aPair_without_total(tags, key, col, data, available_tags) ==
    IF col \in available_tags /\ Truthy(Get(data, col)) /\ IntParses(data[col])
    THEN SetTag(tags, key, <<IntOf(data[col]), 0>>)
    ELSE tags

\* lines 350-368 and 370-388: the (number, total) pair written under key ("trkn" or
\* "disk") for column col; the total of the file's pair is kept, 0 without one.  A
\* number int() rejects (ValueError) leaves the pair alone.
M4aPair(tags, key, col, data, available_tags) ==
    IF col \in available_tags /\ Truthy(Get(data, col)) /\ IntParses(data[col])
    THEN SetTag(tags, key,
                <<IntOf(data[col]), IF key \in DOMAIN tags THEN tags[key][2] ELSE 0>>)
    ELSE tags

\* update_m4a_tags without the "except ValueError" of lines 365 and 385: a number
\* int() rejects reaches the except of line 392
update_m4a_tags_without_except_ValueError(fsx, filepath, data, available_tags, dry_run) ==
    IF dry_run THEN {Saved(fsx)}
    ELSE IF ~Opens(fsx, filepath, "m4a") THEN {Raised(fsx)}
    ELSE IF \E col \in {"track_number", "disc_number"} \cap available_tags :
              Truthy(Get(data, col)) /\ ~IntParses(data[col])
    THEN {Raised(fsx)}
    ELSE LET c == fsx[filepath]
             text == SetTags(c.tags, m4a_map, data,
                             MappedCols(m4a_map, data, available_tags))
             trkn == M4aPair(text, "trkn", "track_number", data, available_tags)
             disk == M4aPair(trkn, "disk", "disc_number", data, available_tags)
         IN  {Saved(Written(fsx, filepath, [c EXCEPT !.tags = disk]))}

update_m4a_tags(fsx, filepath, data, available_tags, dry_run) ==
    IF dry_run THEN {Saved(fsx)}
    ELSE IF ~Opens(fsx, filepath, "m4a") THEN {Raised(fsx)}
    ELSE LET c == fsx[filepath]
             text == SetTags(c.tags, m4a_map, data,
                             MappedCols(m4a_map, data, available_tags))
             trkn == M4aPair(text, "trkn", "track_number", data, available_tags)
             disk == M4aPair(trkn, "disk", "disc_number", data, available_tags)
         IN  {Saved(Written(fsx, filepath, [c EXCEPT !.tags = disk]))}

----------------------------------------------------------------------------
(* Format Codecs, read side.  Each gives [raised, tags]: whether the call    *)
(* raised to process_file, and the record it filled.                         *)

RECURSIVE ReadTags(_, _, _, _)
\* for native, name in map.items(): if native in audio: tags[name] = audio[native]
ReadTags(tags, native, map, names) ==
    IF names = {} THEN tags
    ELSE LET name == CHOOSE n \in names : TRUE
             next == IF map[name] \in DOMAIN native
                     THEN [tags EXCEPT ![name] = native[map[name]]]
                     ELSE tags
         IN  ReadTags(next, native, map, names \ {name})

id3_map == [n \in {"title", "artist", "album_artist", "album", "genre", "track_number"} |->
              CASE n = "title" -> "TIT2" [] n = "artist" -> "TPE1"
                [] n = "album_artist" -> "TPE2" [] n = "album" -> "TALB"
                [] n = "genre" -> "TCON" [] n = "track_number" -> "TRCK"]

\* ID3(filepath) raises on a file without ID3 header or that is no MP3; the fallback
\* MP3(filepath) finds no key to read in the first case and raises in the second;
\* both "except:" clauses swallow
extract_mp3_tags(fsx, filepath, tags) ==
    IF Opens(fsx, filepath, "mp3") /\ fsx[filepath].hdr
    THEN [raised |-> FALSE,
          tags |-> ReadTags(tags, fsx[filepath].tags, id3_map, DOMAIN id3_map)]
    ELSE [raised |-> FALSE, tags |-> tags]

flac_read_map == [n \in DOMAIN id3_map |-> flac_map[n]]
ogg_read_map == [n \in DOMAIN id3_map |-> ogg_map[n]]
wma_read_map == [n \in DOMAIN id3_map |-> wma_map[n]]
m4a_read_map == [n \in DOMAIN id3_map \ {"track_number"} |-> m4a_map[n]]

\* extract_flac_tags with a map that lacks the entry 'ALBUMARTIST': 'album_artist'
extract_flac_tags_without_album_artist(fsx, filepath, tags) ==
    IF ~Opens(fsx, filepath, "flac") THEN [raised |-> TRUE, tags |-> tags]
    ELSE [raised |-> FALSE,
          tags |-> ReadTags(tags, fsx[filepath].tags, flac_read_map,
                            DOMAIN flac_read_map \ {"album_artist"})]

extract_flac_tags(fsx, filepath, tags) ==
    IF ~Opens(fsx, filepath, "flac") THEN [raised |-> TRUE, tags |-> tags]
    ELSE [raised |-> FALSE,
          tags |-> ReadTags(tags, fsx[filepath].tags, flac_read_map, DOMAIN flac_read_map)]

extract_m4a_tags(fsx, filepath, tags) ==
    IF ~Opens(fsx, filepath, "m4a") THEN [raised |-> TRUE, tags |-> tags]
    ELSE LET native == fsx[filepath].tags
             text == ReadTags(tags, native, m4a_read_map, DOMAIN m4a_read_map)
         IN  [raised |-> FALSE,
              tags |-> IF "trkn" \in DOMAIN native
                       THEN [text EXCEPT !["track_number"] = StrOf(native["trkn"][1])]
                       ELSE text]

extract_ogg_tags(fsx, filepath, tags) ==
    IF ~Opens(fsx, filepath, "ogg") THEN [raised |-> TRUE, tags |-> tags]
    ELSE [raised |-> FALSE,
          tags |-> ReadTags(tags, fsx[filepath].tags, ogg_read_map, DOMAIN ogg_read_map)]

extract_wma_tags(fsx, filepath, tags) ==
    IF ~Opens(fsx, filepath, "wma") THEN [raised |-> TRUE, tags |-> tags]
    ELSE [raised |-> FALSE,
          tags |-> ReadTags(tags, fsx[filepath].tags, wma_read_map, DOMAIN wma_read_map)]

\* the read codec process_file dispatches to
extract_codec(fsx, filepath, tags) ==
    LET k == CodecOf(filepath)
    IN  IF k = "mp3" THEN extract_mp3_tags(fsx, filepath, tags)
        ELSE IF k = "flac" THEN extract_flac_tags(fsx, filepath, tags)
        ELSE IF k = "m4a" THEN extract_m4a_tags(fsx, filepath, tags)
        ELSE IF k = "ogg" THEN extract_ogg_tags(fsx, filepath, tags)
        ELSE IF k = "wma" THEN extract_wma_tags(fsx, filepath, tags)
        ELSE [raised |-> FALSE, tags |-> tags]

\* lines 111-119
default_tags(filename) ==
    [album |-> E, album_artist |-> E, artist |-> E, genre |-> E, title |-> E,
     track_number |-> E, filename |-> filename]

\* process_file taking the title from the file name whatever the codec read
process_file_title_from_filename(fsx, filepath, filename) ==
    LET read == extract_codec(fsx, filepath, default_tags(filename))
        tags == read.tags
        needs_track == tags.track_number = E
        parsed == extract_track_and_title_from_filename(filename)
        titled == [tags EXCEPT !.title = parsed[2]]
        filled == IF needs_track /\ parsed[1] # E
                  THEN [titled EXCEPT !.track_number = parsed[1]]
                  ELSE titled
    IN  IF read.raised THEN <<>> ELSE <<filled>>

\* process_file: the records it appends to music_data for one file (none when the
\* read codec raised: line 156 reports the error and the append is skipped)
process_file(fsx, filepath, filename) ==
    LET read == extract_codec(fsx, filepath, default_tags(filename))
        tags == read.tags
        needs_title == tags.title = E
        needs_track == tags.track_number = E
        parsed == extract_track_and_title_from_filename(filename)
        titled == IF needs_title THEN [tags EXCEPT !.title = parsed[2]] ELSE tags
        filled == IF needs_track /\ parsed[1] # E
                  THEN [titled EXCEPT !.track_number = parsed[1]]
                  ELSE titled
    IN  IF read.raised THEN <<>> ELSE <<filled>>

\* the record MetadataExtractionThread.run starts from for one file
thread_tags(filename) ==
    [filename |-> filename, album |-> E, album_artist |-> E, artist |-> E, genre |-> E,
     title |-> E, track_number |-> E, disc_number |-> E, year |-> E]

\* MetadataExtractionThread.run, the step for one file: the signal it emits, with the
\* record ("Error" and no record when the read codec raised)
MetadataExtractionThread_run(fsx, filepath) ==
    LET filename == filepath.name
        read == extract_codec(fsx, filepath, thread_tags(filename))
        tags == read.tags
        needs_title == tags.title = E
        needs_track == tags.track_number = E
        parsed == extract_track_and_title_from_filename(filename)
        titled == IF needs_title THEN [tags EXCEPT !.title = parsed[2]] ELSE tags
        filled == IF needs_track /\ parsed[1] # E
                  THEN [titled EXCEPT !.track_number = parsed[1]]
                  ELSE titled
    IN  IF read.raised THEN [status |-> "Error", tags |-> None]
        ELSE [status |-> "Processed", tags |-> filled]

\* a set of paths as a sequence, in the order the directory listing gives them
RECURSIVE Listing(_)
Listing(ps) == IF ps = {} THEN <<>>
               ELSE LET p == CHOOSE q \in ps : TRUE IN <<p>> \o Listing(ps \ {p})

RECURSIVE ProcessAll(_, _)
ProcessAll(fsx, paths) ==
    IF paths = <<>> THEN <<>>
    ELSE process_file(fsx, Head(paths), Head(paths).name) \o ProcessAll(fsx, Tail(paths))

\* extract_tags: the records collected from the tree, the input folder first and then
\* its subfolders (os.walk, top down); without recursive, the input folder alone
scan(fsx, recursive) ==
    LET here == {p \in DOMAIN fsx : p.dir = "R" /\ is_audio_file(p.name)}
        below == {p \in DOMAIN fsx : p.dir # "R" /\ is_audio_file(p.name)}
    IN  ProcessAll(fsx, Listing(here) \o (IF recursive THEN Listing(below) ELSE <<>>))

----------------------------------------------------------------------------
(* File Locator: the index file_dict, an ordered dict kept as the sequence   *)
(* of its [key, path] items.  A key is [name, parent]: the tuple             *)
(* (file, parent_dir), or the bare file name when parent is Bare.            *)

Bare == <<"str">>

Key(name, parent) == [name |-> name, parent |-> parent]

HasKey(d, key) == \E i \in 1..Len(d) : d[i].key = key

\* d[key]
Item(d, key) == d[CHOOSE i \in 1..Len(d) : d[i].key = key].path

\* d[key] = path: a new key goes last, a known key keeps its place
DictSet(d, key, path) ==
    IF HasKey(d, key)
    THEN [i \in 1..Len(d) |-> IF d[i].key = key THEN [key |-> key, path |-> path] ELSE d[i]]
    ELSE Append(d, [key |-> key, path |-> path])

RECURSIVE IndexWalk(_, _)
\* lines 46-54: walk is the sequence of the paths os.walk yields, d the dict so far
IndexWalk(d, walk) ==
    IF walk = <<>> THEN d
    ELSE LET p == Head(walk)
             file == p.name
             parent_dir == DirBase[p.dir]
             d1 == DictSet(d, Key(file, parent_dir), p)
             d2 == IF ~HasKey(d1, Key(file, Bare)) THEN DictSet(d1, Key(file, Bare), p)
                   ELSE d1
         IN  IndexWalk(IF is_audio_file(file) THEN d2 ELSE d, Tail(walk))

RECURSIVE IndexListing(_, _)
\* lines 57-60: listing is the sequence of the paths of os.listdir(input_folder)
IndexListing(d, listing) ==
    IF listing = <<>> THEN d
    ELSE LET p == Head(listing)
         IN  IndexListing(IF is_audio_file(p.name) THEN DictSet(d, Key(p.name, Bare), p)
                          ELSE d,
                          Tail(listing))

\* lines 42-60; walk lists the files of the tree in traversal order
build_file_dict(walk, recursive) ==
    IF recursive THEN IndexWalk(<<>>, walk)
    ELSE IndexListing(<<>>, SelectSeq(walk, LAMBDA p : p.dir = "R"))

\* lines 110-113: the first bare key that equals filename when both are lowered
CaseInsensitive(d, filename) ==
    IF \E i \in 1..Len(d) : d[i].key.parent = Bare /\ Lower(d[i].key.name) = Lower(filename)
    THEN d[CHOOSE i \in 1..Len(d) :
               /\ d[i].key.parent = Bare /\ Lower(d[i].key.name) = Lower(filename)
               /\ \A j \in 1..(i-1) :
                      ~(d[j].key.parent = Bare /\ Lower(d[j].key.name) = Lower(filename))].path
    ELSE NoPath

\* lines 97-113: the path a row resolves to, NoPath when it resolves to none
resolve(d, filename, parent_dir) ==
    IF HasKey(d, Key(filename, Bare)) THEN Item(d, Key(filename, Bare))
    ELSE IF Truthy(parent_dir) /\ HasKey(d, Key(filename, parent_dir))
    THEN Item(d, Key(filename, parent_dir))
    ELSE CaseInsensitive(d, filename)

----------------------------------------------------------------------------
(* Synchronization Driver: one iteration of the loop over the rows           *)

Stats0 == [total |-> 0, updated |-> 0, renamed |-> 0, failed |-> 0, skipped |-> 0,
           not_found |-> 0]

Count(st, counter) == [st EXCEPT ![counter] = @ + 1]

\* line 81
available_tags(header) == header \cap supported_tags

\* lines 126-141: the write codec the driver dispatches to
update_codec(fsx, filepath, data, tags, dry_run) ==
    LET k == CodecOf(filepath)
    IN  IF k = "mp3" THEN update_mp3_tags(fsx, filepath, data, tags, dry_run)
        ELSE IF k = "flac" THEN update_flac_tags(fsx, filepath, data, tags, dry_run)
        ELSE IF k = "m4a" THEN update_m4a_tags(fsx, filepath, data, tags, dry_run)
        ELSE IF k = "ogg" THEN update_ogg_tags(fsx, filepath, data, tags, dry_run)
        ELSE update_wma_tags(fsx, filepath, data, tags, dry_run)

Outcome(fsx, st, status, path) ==
    [fs |-> fsx, stats |-> st, status |-> status, path |-> path]

\* rename_step with an exception of os.rename reaching the except of line 166
rename_step_raising(fsx, st, filepath, row, tags, dry_run, rename_files) ==
    IF rename_files /\ "track_number" \in tags /\ Truthy(Get(row, "track_number"))
    THEN LET disc_number == IF "disc_number" \in tags THEN Get(row, "disc_number")
                            ELSE None
         IN  {IF r.path # filepath
              THEN Outcome(r.fs, Count(st, "renamed"), "Updated", r.path)
              ELSE IF already_numbered(SplitBase(filepath.name), disc_number) \/ dry_run
              THEN Outcome(r.fs, st, "Updated", filepath)
              ELSE Outcome(r.fs, Count(st, "failed"), "Failed", filepath) :
                 r \in rename_file_with_track_number(fsx, filepath, row["track_number"],
                                                     dry_run, disc_number)}
    ELSE {Outcome(fsx, st, "Updated", filepath)}

\* lines 145-161: the rename that follows a successful update
rename_step(fsx, st, filepath, row, tags, dry_run, rename_files) ==
    IF rename_files /\ "track_number" \in tags /\ Truthy(Get(row, "track_number"))
    THEN LET disc_number == IF "disc_number" \in tags THEN Get(row, "disc_number")
                            ELSE None
         IN  {Outcome(r.fs, IF r.path # filepath THEN Count(st, "renamed") ELSE st,
                      "Updated", r.path) :
                 r \in rename_file_with_track_number(fsx, filepath, row["track_number"],
                                                     dry_run, disc_number)}
    ELSE {Outcome(fsx, st, "Updated", filepath)}

\* lines 126-168: the codec call inside the try, and what follows it
write_row(fsx, st, row, filepath, tags, dry_run, rename_files) ==
    IF CodecOf(filepath) = "unsupported"
    THEN {Outcome(fsx, Count(st, "skipped"), "Skipped", filepath)}
    ELSE UNION {
        IF w.raised THEN {Outcome(w.fs, Count(st, "failed"), "Failed", filepath)}
        ELSE rename_step(w.fs, Count(st, "updated"), filepath, row, tags, dry_run,
                         rename_files) :
        w \in update_codec(fsx, filepath, row, tags, dry_run)}

\* located_row with the test of lines 120-124 ahead of the test of lines 115-118
located_row_empty_test_first(fsx, st, row, filepath, tags, dry_run, rename_files) ==
    IF \A col \in tags : ~Truthy(Get(row, col))
    THEN {Outcome(fsx, Count(st, "skipped"), "Skipped", filepath)}
    ELSE IF filepath = NoPath
    THEN {Outcome(fsx, Count(st, "not_found"), "NotFound", NoPath)}
    ELSE write_row(fsx, st, row, filepath, tags, dry_run, rename_files)

\* lines 115-124: a row whose file name is not blank, resolved to filepath
located_row(fsx, st, row, filepath, tags, dry_run, rename_files) ==
    IF filepath = NoPath
    THEN {Outcome(fsx, Count(st, "not_found"), "NotFound", NoPath)}
    ELSE IF \A col \in tags : ~Truthy(Get(row, col))
    THEN {Outcome(fsx, Count(st, "skipped"), "Skipped", filepath)}
    ELSE write_row(fsx, st, row, filepath, tags, dry_run, rename_files)

\* lines 88-168: the outcomes of one row, each [fs, stats, status, path].  Status
\* "Crashed" is an exception that leaves update_tags_from_csv: a row shorter than the
\* header has filename None, and None.strip() (line 91) raises outside the try.
process_row(d, fsx, st0, row, header, dry_run, rename_files) ==
    LET st == Count(st0, "total")
        raw == Get(row, "filename")
        filename == Strip(raw)
    IN  IF raw = None THEN {Outcome(fsx, st, "Crashed", NoPath)}
        ELSE IF filename = E THEN {Outcome(fsx, Count(st, "skipped"), "Skipped", NoPath)}
        ELSE located_row(fsx, st, row, resolve(d, filename, Get(row, "parent_dir")),
                         available_tags(header), dry_run, rename_files)

----------------------------------------------------------------------------
(* The inputs of a run: the directory tree, the header and the rows          *)

X == <<"x">>
Old == <<"o">>

\* a file that carries every native key of its container, with old values
FullTags(fmt) ==
    CASE fmt = "mp3" ->
           [k \in {EasyID3Frame[e] : e \in DOMAIN EasyID3Frame} \cup {"TPE2", "COMM"} |-> Old]
      [] fmt = "flac" -> [k \in {flac_map[c] : c \in supported_tags} |-> Old]
      [] fmt = "ogg" -> [k \in {ogg_map[c] : c \in supported_tags} |-> Old]
      [] fmt = "wma" -> [k \in {wma_map[c] : c \in supported_tags} |-> Old]
      [] fmt = "m4a" ->
           [k \in {m4a_map[c] : c \in DOMAIN m4a_map} \cup {"trkn", "disk"} |->
               IF k = "trkn" THEN <<1, 12>> ELSE IF k = "disk" THEN <<1, 2>> ELSE Old]

Tagged(fmt) == [kind |-> fmt, hdr |-> TRUE, tags |-> FullTags(fmt)]
\* a file without any tag (an MP3 without ID3 header)
Untagged(fmt) == [kind |-> fmt, hdr |-> fmt # "mp3", tags |-> <<>>]
\* a file whose bytes are no container the tag library can open
Junk == [kind |-> "junk", hdr |-> FALSE, tags |-> <<>>]

NameA(fmt) == <<"a">> \o ExtOf[fmt]
Name03A(fmt) == <<"0", "3", " ", "a">> \o ExtOf[fmt]
NameZ(fmt) == <<"z">> \o ExtOf[fmt]
NameTxt == <<"n", ".", "t", "x", "t">>
\* NameA in upper case
NameUpper(fmt) == [i \in 1..Len(NameA(fmt)) |-> UpperChar(NameA(fmt)[i])]

\* The tree, in traversal order: the input folder R holds a tagged file, an untagged
\* file whose name is the one the Rename Engine gives the first for track 3, and a
\* text file; its subfolder B holds a file named like the first and a malformed one;
\* the subfolder B of B holds one more file named like the first.
Tree(fmt) ==
    << [path |-> Path("R", NameA(fmt)), content |-> Tagged(fmt)],
       [path |-> Path("R", Name03A(fmt)), content |-> Untagged(fmt)],
       [path |-> Path("R", NameTxt), content |-> Junk],
       [path |-> Path("R/B", NameA(fmt)), content |-> Tagged(fmt)],
       [path |-> Path("R/B", NameZ(fmt)), content |-> Junk],
       [path |-> Path("R/B/B", NameA(fmt)), content |-> Tagged(fmt)] >>

Walk(fmt) == [i \in 1..Len(Tree(fmt)) |-> Tree(fmt)[i].path]

TreeFs(fmt) ==
    [p \in {Tree(fmt)[i].path : i \in 1..Len(Tree(fmt))} |->
        Tree(fmt)[CHOOSE i \in 1..Len(Tree(fmt)) : Tree(fmt)[i].path = p].content]

\* The tag columns of the headers tried (the header also has filename and parent_dir):
\* none, one supported column, an unrecognized column, and the pairs of columns the
\* code treats together.
Headers ==
    {{}} \cup {{c} : c \in supported_tags} \cup
    {{"mood"}, {"title", "mood"}, {"track_number", "disc_number"},
     {"album_artist", "disc_number"}, {"album_artist", "title"},
     {"album_artist", "comment"}}

\* The tables come in two families.  The rows of a "names" table vary in the file they
\* name (a file of the input folder, of the subfolder, another letter case, a malformed
\* file, a blank name, a missing cell) and in parent_dir; the rows of a "cells" table
\* name the two files of the input folder and vary in the values of the tag cells.
Tables == {"names", "cells"}

\* What the run is given: a folder and a table with a header that has the filename
\* column, or a path that is no directory, a table without header, a header without
\* the filename column.
Inputs == {"ok", "not_a_dir", "no_header", "no_filename"}

NamesHeaders == {{}, {"title"}, {"track_number", "disc_number"}}

Configs ==
    {c \in [recursive : BOOLEAN, rename_files : BOOLEAN, header : Headers,
            fmt : Formats, table : Tables, input : Inputs] :
        /\ c.table = "names" => c.header \in NamesHeaders
        /\ c.table = "cells" => ~c.recursive
        \* line 146 reads rename_files only together with the track_number column
        /\ c.rename_files => "track_number" \in c.header}

\* the values tried in a cell of each column
Cells(col, c) ==
    CASE col = "filename" ->
           IF c.table = "names"
           THEN {NameA(c.fmt), Name03A(c.fmt), NameUpper(c.fmt), NameZ(c.fmt), <<" ">>, None}
           ELSE {NameA(c.fmt), Name03A(c.fmt)}
      [] col = "parent_dir" -> IF c.table = "names" THEN {E, <<"B">>} ELSE {E}
      [] col = "track_number" ->
           IF c.table = "names" THEN {E, <<"3">>} ELSE {E, <<"3">>, <<"0", "3">>, X}
      [] col = "disc_number" ->
           IF c.table = "names" THEN {E, <<"1">>} ELSE {E, <<"1">>, X}
      [] OTHER -> {E, X}

Columns(header) == {"filename", "parent_dir"} \cup header

\* row with cell v added in column col
WithCell(row, col, v) == [k \in DOMAIN row \cup {col} |-> IF k = col THEN v ELSE row[k]]

RECURSIVE RowsOver(_, _)
RowsOver(cols, c) ==
    IF cols = {} THEN {<<>>}
    ELSE LET col == CHOOSE k \in cols : TRUE
         IN  {WithCell(row, col, v) : row \in RowsOver(cols \ {col}, c), v \in Cells(col, c)}

\* the rows a table of the run can hold
Rows(c) == RowsOver(Columns(c.header), c)

----------------------------------------------------------------------------
(* GUI driver: update_tags_from_csv_with_callback of gui.py.  Its index      *)
(* (lines 77-95) and its lookup (lines 136-150) are the statements of        *)
(* update_tags_from_csv; the codecs and the Rename Engine are imported from  *)
(* update_music_metadata.py.  Each outcome of a row carries calls, the       *)
(* progress callbacks of the row, each <<filename, status>>.                 *)

Called(o, filename, status) ==
    [fs |-> o.fs, stats |-> o.stats, status |-> o.status, path |-> o.path,
     calls |-> <<<<filename, status>>>>]

\* callback_rename_step without the count of line 205
callback_rename_step_without_count(fsx, st, filename, filepath, row, tags, dry_run, rename_files) ==
    IF rename_files /\ "track_number" \in tags /\ Truthy(Get(row, "track_number"))
    THEN LET disc_number == IF "disc_number" \in tags THEN Get(row, "disc_number")
                            ELSE None
         IN  {Called(Outcome(r.fs, st, "Updated", r.path), filename, "Updated") :
                 r \in rename_file_with_track_number(fsx, filepath, row["track_number"],
                                                     dry_run, disc_number)}
    ELSE {Called(Outcome(fsx, st, "Updated", filepath), filename, "Updated")}

\* lines 187-210: the rename that follows a successful update, and the callback
callback_rename_step(fsx, st, filename, filepath, row, tags, dry_run, rename_files) ==
    IF rename_files /\ "track_number" \in tags /\ Truthy(Get(row, "track_number"))
    THEN LET disc_number == IF "disc_number" \in tags THEN Get(row, "disc_number")
                            ELSE None
         IN  {Called(Outcome(r.fs, IF r.path # filepath THEN Count(st, "renamed") ELSE st,
                             "Updated", r.path), filename, "Updated") :
                 r \in rename_file_with_track_number(fsx, filepath, row["track_number"],
                                                     dry_run, disc_number)}
    ELSE {Called(Outcome(fsx, st, "Updated", filepath), filename, "Updated")}

\* lines 168-216: the codec call inside the try, and what follows it
callback_write_row(fsx, st, filename, row, filepath, tags, dry_run, rename_files) ==
    IF CodecOf(filepath) = "unsupported"
    THEN {Called(Outcome(fsx, Count(st, "skipped"), "Skipped", filepath), filename, "Skipped")}
    ELSE UNION {
        IF w.raised
        THEN {Called(Outcome(w.fs, Count(st, "failed"), "Failed", filepath), filename, "Failed")}
        ELSE callback_rename_step(w.fs, Count(st, "updated"), filename, filepath, row, tags,
                                  dry_run, rename_files) :
        w \in update_codec(fsx, filepath, row, tags, dry_run)}

\* lines 123-216: the outcomes of one row of update_tags_from_csv_with_callback.  Like
\* update_tags_from_csv it raises on a row whose filename is None (line 127).
callback_process_row(d, fsx, st0, row, header, dry_run, rename_files) ==
    LET st == Count(st0, "total")
        raw == Get(row, "filename")
        filename == Strip(raw)
        filepath == resolve(d, filename, Get(row, "parent_dir"))
        tags == available_tags(header)
    IN  IF raw = None
        THEN {[fs |-> fsx, stats |-> st, status |-> "Crashed", path |-> NoPath,
               calls |-> <<>>]}
        ELSE IF filename = E
        THEN {Called(Outcome(fsx, Count(st, "skipped"), "Skipped", NoPath),
                     filename, "Skipped")}
        ELSE IF filepath = NoPath
        THEN {Called(Outcome(fsx, Count(st, "not_found"), "NotFound", NoPath),
                     filename, "Not Found")}
        ELSE IF \A col \in tags : ~Truthy(Get(row, col))
        THEN {Called(Outcome(fsx, Count(st, "skipped"), "Skipped", filepath),
                     filename, "Skipped")}
        ELSE callback_write_row(fsx, st, filename, row, filepath, tags, dry_run,
                                rename_files)

\* the GUI driver is not called
GuiIdle ==
    /\ given = [dry_run |-> FALSE, bad_line |-> 0]
    /\ gui_run = [fs |-> <<>>, stats |-> Stats0, pc |-> "idle", calls |-> <<>>]
    /\ update_threads = <<>>

----------------------------------------------------------------------------
(* Audio-Relevance Filter: extract_audio_relevant_metadata of               *)
(* convert_video_to_mp3.py.  Tag keys and audio fields are sequences of      *)
(* characters, like every string the code changes the case of.              *)

\* lines 144-157: audio_relevant_mapping, as the set of its items <<key, audio_field>>
audio_relevant_mapping ==
    { <<<<"t", "i", "t", "l", "e">>,
        <<"t", "i", "t", "l", "e">>>>,
      <<<<"a", "r", "t", "i", "s", "t">>,
        <<"a", "r", "t", "i", "s", "t">>>>,
      <<<<"a", "l", "b", "u", "m">>,
        <<"a", "l", "b", "u", "m">>>>,
      <<<<"a", "l", "b", "u", "m", "_", "a", "r", "t", "i", "s", "t">>,
        <<"a", "l", "b", "u", "m", "_", "a", "r", "t", "i", "s", "t">>>>,
      <<<<"a", "l", "b", "u", "m", "a", "r", "t", "i", "s", "t">>,
        <<"a", "l", "b", "u", "m", "_", "a", "r", "t", "i", "s", "t">>>>,
      <<<<"g", "e", "n", "r", "e">>,
        <<"g", "e", "n", "r", "e">>>>,
      <<<<"t", "r", "a", "c", "k">>,
        <<"t", "r", "a", "c", "k">>>>,
      <<<<"d", "a", "t", "e">>,
        <<"d", "a", "t", "e">>>>,
      <<<<"y", "e", "a", "r">>,
        <<"d", "a", "t", "e">>>>,
      <<<<"c", "o", "m", "m", "e", "n", "t">>,
        <<"c", "o", "m", "m", "e", "n", "t">>>>,
      <<<<"c", "o", "m", "p", "o", "s", "e", "r">>,
        <<"c", "o", "m", "p", "o", "s", "e", "r">>>>,
      <<<<"p", "e", "r", "f", "o", "r", "m", "e", "r">>,
        <<"a", "r", "t", "i", "s", "t">>>> }

\* lines 160-166
exclude_tags ==
    { <<"m", "a", "j", "o", "r", "_", "b", "r", "a", "n", "d">>,
      <<"m", "i", "n", "o", "r", "_", "v", "e", "r", "s", "i", "o", "n">>,
      <<"c", "o", "m", "p", "a", "t", "i", "b", "l", "e", "_", "b", "r", "a", "n", "d", "s">>,
      <<"e", "n", "c", "o", "d", "e", "r">>,
      <<"e", "n", "c", "o", "d", "e", "r", "_", "s", "e", "t", "t", "i", "n", "g", "s">>,
      <<"c", "r", "e", "a", "t", "i", "o", "n", "_", "t", "i", "m", "e">>,
      <<"l", "o", "c", "a", "t", "i", "o", "n">>,
      <<"l", "o", "c", "a", "t", "i", "o", "n", "-", "e", "n", "g">>,
      <<"c", "o", "m", ".", "a", "n", "d", "r", "o", "i", "d", ".", "v", "e", "r", "s", "i", "o", "n">>,
      <<"h", "a", "n", "d", "l", "e", "r", "_", "n", "a", "m", "e">>,
      <<"v", "e", "n", "d", "o", "r", "_", "i", "d">>,
      <<"t", "i", "m", "e", "c", "o", "d", "e">>,
      <<"r", "o", "t", "a", "t", "e">>,
      <<"d", "u", "r", "a", "t", "i", "o", "n">>,
      <<"b", "i", "t", "r", "a", "t", "e">>,
      <<"f", "p", "s">> }

\* tag_key_lower in audio_relevant_mapping
InMapping(key) == \E item \in audio_relevant_mapping : item[1] = key

\* audio_relevant_mapping[tag_key_lower]
MappingOf(key) == (CHOOSE item \in audio_relevant_mapping : item[1] = key)[2]

\* filter_tag storing str(tag_value) as it is, without the strip() of line 179
filter_tag_without_strip(md, tag_key, tag_value) ==
    LET tag_key_lower == Lower(tag_key)
    IN  IF tag_key_lower \in exclude_tags THEN md
        ELSE IF InMapping(tag_key_lower)
        THEN LET audio_field == MappingOf(tag_key_lower)
             IN  IF tag_value # E /\ Strip(tag_value) # E
                 THEN [f \in DOMAIN md \cup {audio_field} |->
                          IF f = audio_field THEN tag_value ELSE md[f]]
                 ELSE md
        ELSE md

\* lines 168-179, one iteration of the loop: metadata after the item (tag_key, tag_value)
filter_tag(md, tag_key, tag_value) ==
    LET tag_key_lower == Lower(tag_key)
    IN  IF tag_key_lower \in exclude_tags THEN md
        ELSE IF InMapping(tag_key_lower)
        THEN LET audio_field == MappingOf(tag_key_lower)
             IN  IF tag_value # E /\ Strip(tag_value) # E
                 THEN [f \in DOMAIN md \cup {audio_field} |->
                          IF f = audio_field THEN Strip(tag_value) ELSE md[f]]
                 ELSE md
        ELSE md

\* the loop of lines 168-179 over the items, from metadata md
RECURSIVE filter_tags(_, _)
filter_tags(md, items) ==
    IF items = <<>> THEN md
    ELSE filter_tags(filter_tag(md, Head(items)[1], Head(items)[2]), Tail(items))

\* lines 131-181: the mapping returned for what ffprobe reports
extract_audio_relevant_metadata(v) ==
    IF v.info # "tags" THEN <<>> ELSE filter_tags(<<>>, v.items)


\* the tag keys tried: keys of the mapping, keys of the exclusion set, upper-case
\* spellings, track_number and a key of neither
TagKeys ==
    { <<"t", "i", "t", "l", "e">>,
      <<"e", "n", "c", "o", "d", "e", "r">>,
      <<"c", "r", "e", "a", "t", "i", "o", "n", "_", "t", "i", "m", "e">>,
      <<"p", "e", "r", "f", "o", "r", "m", "e", "r">>,
      <<"a", "r", "t", "i", "s", "t">>,
      <<"A", "r", "t", "i", "s", "t">>,
      <<"t", "r", "a", "c", "k">>,
      <<"t", "r", "a", "c", "k", "_", "n", "u", "m", "b", "e", "r">>,
      <<"T", "R", "A", "C", "K">>,
      <<"y", "e", "a", "r">>,
      <<"d", "a", "t", "e">>,
      <<"m", "o", "o", "d">> }

Y == <<"y">>
\* the tag values tried: two words, a word between blanks, blanks alone, the empty string
TagValues == {X, Y, <<" ", "x", " ">>, <<" ">>, E}

\* the tags of the documented example: title 'X', encoder 'libx264', creation_time
\* '...', performer 'Y'
ExampleTags ==
    << <<<<"t", "i", "t", "l", "e">>, X>>,
       <<<<"e", "n", "c", "o", "d", "e", "r">>, <<"l", "i", "b", "x", "2", "6", "4">>>>,
       <<<<"c", "r", "e", "a", "t", "i", "o", "n", "_", "t", "i", "m", "e">>, <<".", ".", ".">>>>,
       <<<<"p", "e", "r", "f", "o", "r", "m", "e", "r">>, Y>> >>

\* the items of a dict: no key twice
TagLists ==
    {ExampleTags} \cup
    UNION {{t \in [1..n -> TagKeys \X TagValues] :
               \A i, j \in 1..n : i # j => t[i][1] # t[j][1]} : n \in 0..MaxTags}

\* what ffprobe reports: nothing (get_video_info returned None), a format section
\* without tags, or tags
Videos ==
    {[info |-> "none", items |-> <<>>], [info |-> "no_tags", items |-> <<>>]} \cup
    {[info |-> "tags", items |-> t] : t \in TagLists}

\* the filter is not called
FilterIdle == video = [info |-> "none", items |-> <<>>] /\ tag_i = 0 /\ metadata = <<>>
              /\ fpc = "idle"

----------------------------------------------------------------------------
(* The state machine.  The same rows are given to two runs of the driver     *)
(* over the same tree, one with dry_run = False (fs, stats) and one with     *)
(* dry_run = True (fsDry, statsDry).                                         *)

Init ==
    /\ cfg \in Configs
    /\ file_dict = <<>>
    /\ fs = TreeFs(cfg.fmt)
    /\ fsDry = TreeFs(cfg.fmt)
    /\ stats = Stats0
    /\ statsDry = Stats0
    /\ nrows = 0
    /\ pc = "start"
    /\ music_data = <<>>
    /\ FilterIdle
    /\ GuiIdle

\* lines 27-30: the input folder is no directory
folder_error(c) == c.input = "not_a_dir"

\* header_error without the test of lines 74-76 for the filename column
header_error_without_filename_test(c) == c.input = "no_header"

\* lines 70-76: the table has no header, or its header has no filename column
header_error(c) == c.input \in {"no_header", "no_filename"}

\* lines 27-84: the folder is checked, the index is built, the table is opened and
\* its header is checked; a ValueError leaves update_tags_from_csv
Open ==
    /\ pc = "start"
    /\ IF folder_error(cfg)
       THEN pc' = "config_error" /\ file_dict' = file_dict
       ELSE /\ file_dict' = build_file_dict(Walk(cfg.fmt), cfg.recursive)
            /\ pc' = IF header_error(cfg) THEN "config_error" ELSE "rows"
    /\ UNCHANGED <<cfg, fs, stats, fsDry, statsDry, nrows, music_data>>
    /\ UNCHANGED <<filterVars, guiVars>>

\* "for row in reader": the next row of the table, in both runs
ProcessRow ==
    /\ pc = "rows"
    /\ nrows < MaxRows
    /\ \E row \in Rows(cfg) :
         \E w \in process_row(file_dict, fs, stats, row, cfg.header, FALSE, cfg.rename_files),
            d \in process_row(file_dict, fsDry, statsDry, row, cfg.header, TRUE,
                              cfg.rename_files) :
            /\ fs' = w.fs
            /\ stats' = w.stats
            /\ fsDry' = d.fs
            /\ statsDry' = d.stats
            /\ pc' = IF w.status = "Crashed" THEN "crashed" ELSE "rows"
    /\ nrows' = nrows + 1
    /\ UNCHANGED <<cfg, file_dict, music_data>>
    /\ UNCHANGED <<filterVars, guiVars>>

\* lines 170-181: the table is exhausted and the summary is printed
Summary ==
    /\ pc = "rows"
    /\ pc' = "done"
    /\ UNCHANGED <<cfg, file_dict, fs, stats, fsDry, statsDry, nrows, music_data>>
    /\ UNCHANGED <<filterVars, guiVars>>

\* extract_tags over the tree the run left
ExtractTags ==
    /\ pc = "done"
    /\ music_data' = scan(fs, cfg.recursive)
    /\ pc' = "extracted"
    /\ UNCHANGED <<cfg, file_dict, fs, stats, fsDry, statsDry, nrows>>
    /\ UNCHANGED <<filterVars, guiVars>>

Next == Open \/ ProcessRow \/ Summary \/ ExtractTags

Spec == Init /\ [][Next]_vars

----------------------------------------------------------------------------
(* The Audio-Relevance Filter as a state machine: a video is given, the     *)
(* loop consumes its tags one by one, the mapping is returned.              *)

\* the synchronization run is not started
SyncIdle ==
    /\ cfg = [recursive |-> FALSE, rename_files |-> FALSE, header |-> {}, fmt |-> "mp3",
              table |-> "names", input |-> "ok"]
    /\ file_dict = <<>>
    /\ fs = <<>> /\ fsDry = <<>>
    /\ stats = Stats0 /\ statsDry = Stats0
    /\ nrows = 0
    /\ pc = "idle"
    /\ music_data = <<>>

InitFilter ==
    /\ SyncIdle
    /\ GuiIdle
    /\ video \in Videos
    /\ tag_i = 0
    /\ metadata = <<>>
    /\ fpc = "called"

\* lines 133-141: no info, or no tags in the format section: {} is returned
FilterEnter ==
    /\ fpc = "called"
    /\ fpc' = IF video.info = "tags" THEN "loop" ELSE "returned"
    /\ UNCHANGED <<video, tag_i, metadata>>
    /\ UNCHANGED <<syncVars, guiVars>>

\* lines 168-179: the next item of tags.items()
FilterTag ==
    /\ fpc = "loop"
    /\ tag_i < Len(video.items)
    /\ metadata' = filter_tag(metadata, video.items[tag_i + 1][1], video.items[tag_i + 1][2])
    /\ tag_i' = tag_i + 1
    /\ UNCHANGED <<video, fpc>>
    /\ UNCHANGED <<syncVars, guiVars>>

\* line 181
FilterReturn ==
    /\ fpc = "loop"
    /\ tag_i = Len(video.items)
    /\ fpc' = "returned"
    /\ UNCHANGED <<video, tag_i, metadata>>
    /\ UNCHANGED <<syncVars, guiVars>>

NextFilter == FilterEnter \/ FilterTag \/ FilterReturn

SpecFilter == InitFilter /\ [][NextFilter]_vars

----------------------------------------------------------------------------
(* The two drivers side by side: update_tags_from_csv (fs, stats, pc) and    *)
(* update_tags_from_csv_with_callback (gui_run) are given the same folder,   *)
(* the same options and the same table, each over a tree of its own.         *)
(* update_tags_from_csv reads the table line by line while it processes the  *)
(* rows (line 87); the GUI driver reads the whole table before its first row *)
(* (rows = list(reader), line 121).  On line bad_line the reader raises      *)
(* (csv.Error, or UnicodeDecodeError in a table longer than a read buffer).  *)

InitDrivers ==
    /\ cfg \in Configs
    /\ given \in [dry_run : BOOLEAN, bad_line : 0..MaxRows]
    /\ file_dict = <<>>
    /\ fs = TreeFs(cfg.fmt)
    /\ gui_run = [fs |-> TreeFs(cfg.fmt), stats |-> Stats0, pc |-> "start", calls |-> <<>>]
    /\ stats = Stats0
    /\ nrows = 0
    /\ pc = "start"
    /\ fsDry = <<>> /\ statsDry = Stats0 /\ music_data = <<>>
    /\ update_threads = <<>>
    /\ FilterIdle

\* both drivers check the folder, build the index and check the header; the GUI
\* driver then reads the table to its end
DriversOpen ==
    /\ pc = "start"
    /\ IF folder_error(cfg)
       THEN /\ pc' = "config_error" /\ file_dict' = file_dict
            /\ gui_run' = [gui_run EXCEPT !.pc = "config_error"]
       ELSE /\ file_dict' = build_file_dict(Walk(cfg.fmt), cfg.recursive)
            /\ pc' = IF header_error(cfg) THEN "config_error" ELSE "rows"
            /\ gui_run' = [gui_run EXCEPT !.pc =
                              IF header_error(cfg) THEN "config_error"
                              ELSE IF given.bad_line # 0 THEN "reader_error"
                              ELSE "rows"]
    /\ UNCHANGED <<cfg, fs, stats, fsDry, statsDry, nrows, music_data>>
    /\ UNCHANGED <<filterVars, given, update_threads>>

\* the next row of the table, in both drivers.  The two runs are in one environment:
\* where the platform or the tag library decides how a call ends (a rename onto an
\* existing file, a write the library may refuse), it decides the same way in both.
\* That each outcome of one driver is an outcome of the other is not assumed here: it
\* is the equality of the outcome sets that the properties state.
DriversRow ==
    /\ pc = "rows"
    /\ nrows < MaxRows
    /\ given.bad_line # nrows + 1
    /\ \E row \in Rows(cfg) :
         \E w \in process_row(file_dict, fs, stats, row, cfg.header, given.dry_run,
                              cfg.rename_files) :
            /\ fs' = w.fs
            /\ stats' = w.stats
            /\ pc' = IF w.status = "Crashed" THEN "crashed" ELSE "rows"
            /\ IF gui_run.pc = "rows"
               THEN \E g \in callback_process_row(file_dict, gui_run.fs, gui_run.stats, row,
                                                  cfg.header, given.dry_run,
                                                  cfg.rename_files) :
                      /\ g.status = w.status /\ g.path = w.path
                      /\ g.fs = w.fs
                      /\ gui_run' = [fs |-> g.fs, stats |-> g.stats, calls |-> g.calls,
                                     pc |-> IF g.status = "Crashed" THEN "crashed"
                                            ELSE "rows"]
               ELSE gui_run' = gui_run
    /\ nrows' = nrows + 1
    /\ UNCHANGED <<cfg, file_dict, fsDry, statsDry, music_data>>
    /\ UNCHANGED <<filterVars, given, update_threads>>

\* update_tags_from_csv asks the reader for the line it raises on
DriversReaderError ==
    /\ pc = "rows"
    /\ given.bad_line = nrows + 1
    /\ pc' = "reader_error"
    /\ UNCHANGED <<cfg, file_dict, fs, stats, fsDry, statsDry, nrows, music_data>>
    /\ UNCHANGED <<filterVars, guiVars>>

\* the table is exhausted: the summary is printed, the GUI driver returns stats
DriversEnd ==
    /\ pc = "rows"
    /\ given.bad_line = 0
    /\ pc' = "done"
    /\ gui_run' = [gui_run EXCEPT !.pc = "returned"]
    /\ UNCHANGED <<cfg, file_dict, fs, stats, fsDry, statsDry, nrows, music_data>>
    /\ UNCHANGED <<filterVars, given, update_threads>>

NextDrivers == DriversOpen \/ DriversRow \/ DriversReaderError \/ DriversEnd

SpecDrivers == InitDrivers /\ [][NextDrivers]_vars

----------------------------------------------------------------------------
(* The window: MusicMetadataManager.update_files and MetadataUpdateThread.   *)
(* The metadata of the folder is loaded.  Every request to update writes the *)
(* table and starts a thread that runs the GUI driver over the folder; the   *)
(* threads share the tree fs.  pc is "window" while the application runs.    *)

\* lines 611-612: the tag columns of the table update_files writes
WindowHeader ==
    {"title", "artist", "album", "album_artist", "genre", "year", "track_number",
     "disc_number"}

\* the rows of the table: the two files of the input folder, with or without a title
\* and a track number, the other cells empty
WindowRows ==
    {[col \in {"filename"} \cup WindowHeader |->
         CASE col = "filename" -> name
           [] col = "title" -> title
           [] col = "track_number" -> track
           [] OTHER -> E] :
       name \in {NameA(cfg.fmt), Name03A(cfg.fmt)}, title \in {E, X},
       track \in {E, <<"3">>}}

\* os.walk(input_folder) and os.listdir(input_folder) over the tree as it is now,
\* each as [dir, name] in the order of traversal
WalkOf(fsx) ==
    Listing({p \in DOMAIN fsx : p.dir = "R"}) \o
    Listing({p \in DOMAIN fsx : p.dir = "R/B"}) \o
    Listing({p \in DOMAIN fsx : p.dir = "R/B/B"})

\* the thread is between start() and the end of run()
Running(th) == th.pc \in {"start", "rows"}

InitWindow ==
    /\ cfg \in {c \in [recursive : BOOLEAN, rename_files : BOOLEAN, header : {WindowHeader},
                       fmt : Formats, table : {"cells"}, input : {"ok"}] : TRUE}
    /\ given \in [dry_run : BOOLEAN, bad_line : {0}]
    /\ fs = TreeFs(cfg.fmt)
    /\ update_threads = <<>>
    /\ pc = "window"
    /\ file_dict = <<>>
    /\ stats = Stats0
    /\ nrows = 0
    /\ fsDry = <<>> /\ statsDry = Stats0 /\ music_data = <<>>
    /\ gui_run = [fs |-> <<>>, stats |-> Stats0, pc |-> "idle", calls |-> <<>>]
    /\ FilterIdle

\* update_files, lines 591-637: the table is written and a new MetadataUpdateThread
\* is started, whatever the state of the one started before.  self.update_thread is
\* rebound to the new object: the object of a thread that is still running is either
\* kept alive by its running run(), or destroyed, and Qt aborts the process on the
\* destruction of a running QThread.
UpdateFiles ==
    /\ pc = "window"
    /\ Len(update_threads) < MaxRuns
    /\ \/ /\ update_threads' =
               Append(update_threads,
                      [pc |-> "start", file_dict |-> <<>>, nrows |-> 0, stats |-> Stats0])
          /\ pc' = pc
       \/ /\ \E t \in 1..Len(update_threads) : Running(update_threads[t])
          /\ pc' = "aborted"
          /\ update_threads' = update_threads
    /\ UNCHANGED <<cfg, file_dict, fs, stats, fsDry, statsDry, nrows, music_data>>
    /\ UNCHANGED <<filterVars, given, gui_run>>

\* the threads that were started
Threads == 1..Len(update_threads)

\* MetadataUpdateThread.run into update_tags_from_csv_with_callback, gui.py lines
\* 61-121 (run, lines 731-745): the index is built from the tree as it is and the table is read
ThreadOpen ==
    /\ pc = "window"
    /\ \E t \in Threads :
         /\ update_threads[t].pc = "start"
         /\ update_threads' =
              [update_threads EXCEPT ![t].pc = "rows",
                                     ![t].file_dict =
                                         build_file_dict(WalkOf(fs), cfg.recursive)]
    /\ UNCHANGED <<cfg, file_dict, fs, stats, fsDry, statsDry, nrows, pc, music_data>>
    /\ UNCHANGED <<filterVars, given, gui_run>>

\* gui.py lines 123-216: a thread processes its next row
ThreadRow ==
    /\ pc = "window"
    /\ \E t \in Threads :
         /\ update_threads[t].pc = "rows"
         /\ update_threads[t].nrows < MaxRows
         /\ \E row \in WindowRows :
              \E g \in callback_process_row(update_threads[t].file_dict, fs,
                                            update_threads[t].stats, row, cfg.header,
                                            given.dry_run, cfg.rename_files) :
                 /\ fs' = g.fs
                 /\ update_threads' =
                      [update_threads EXCEPT ![t].stats = g.stats, ![t].nrows = @ + 1]
    /\ UNCHANGED <<cfg, file_dict, stats, fsDry, statsDry, nrows, pc, music_data>>
    /\ UNCHANGED <<filterVars, given, gui_run>>

\* gui.py lines 218 and 746: the driver returns and the thread emits finished(stats)
ThreadFinish ==
    /\ pc = "window"
    /\ \E t \in Threads :
         /\ update_threads[t].pc = "rows"
         /\ update_threads' = [update_threads EXCEPT ![t].pc = "finished"]
    /\ UNCHANGED <<cfg, file_dict, fs, stats, fsDry, statsDry, nrows, pc, music_data>>
    /\ UNCHANGED <<filterVars, given, gui_run>>

NextWindow == UpdateFiles \/ ThreadOpen \/ ThreadRow \/ ThreadFinish

SpecWindow == InitWindow /\ [][NextWindow]_vars

----------------------------------------------------------------------------
(* Properties.  A property about one row is stated at every state where the  *)
(* driver is about to read a row, over every row the table can hold there    *)
(* and every outcome the row can have.                                       *)

\* the loop over the rows has a row left to read
Reading == pc = "rows" /\ nrows < MaxRows

\* the outcomes of row in the run with dry_run = False
WetOutcomes(row) ==
    process_row(file_dict, fs, stats, row, cfg.header, FALSE, cfg.rename_files)

\* the file name of the row, as line 91 strips it, and its parent_dir cell
RowName(row) == Strip(Get(row, "filename"))
RowParent(row) == Get(row, "parent_dir")

\* the path the row resolves to
RowPath(row) == resolve(file_dict, RowName(row), RowParent(row))

\* the supported columns of the header that are not empty in the row
TagCols(row) == {col \in available_tags(cfg.header) : Truthy(Get(row, col))}

\* the native key under which the codec of a container keeps a column
NativeKey(kind, col) ==
    CASE kind = "mp3" -> IF col = "album_artist" THEN "TPE2"
                         ELSE IF col = "comment" THEN "COMM" ELSE Mp3Frame(col)
      [] kind = "flac" -> flac_map[col]
      [] kind = "ogg" -> ogg_map[col]
      [] kind = "wma" -> wma_map[col]
      [] kind = "m4a" -> IF col = "track_number" THEN "trkn"
                         ELSE IF col = "disc_number" THEN "disk" ELSE m4a_map[col]

\* the native keys whose presence or value differs between two tag mappings
ChangedKeys(before, after) ==
    {k \in DOMAIN before \cup DOMAIN after :
        k \notin DOMAIN before \/ k \notin DOMAIN after \/ before[k] # after[k]}

\* C1: a row whose parent_dir cell is not empty and whose (filename, parent_dir) pair
\* is a key of the index resolves to the file of that pair, ahead of the file of the
\* bare-filename key, and whatever the row does is done to a file of the directory
\* parent_dir names.
C1_PairKeyTakesPrecedence ==
    Reading =>
      \A row \in Rows(cfg) :
        (Truthy(RowParent(row)) /\ HasKey(file_dict, Key(RowName(row), RowParent(row)))) =>
          /\ RowPath(row) = Item(file_dict, Key(RowName(row), RowParent(row)))
          /\ \A w \in WetOutcomes(row) :
               w.path # NoPath => DirBase[w.path.dir] = RowParent(row)

\* C2: in the run with dry_run = False, the native keys one row changes on the file
\* it resolves to are keys of supported columns that are not empty in the row, and
\* every other file the row leaves in the tree is left as it was.
C2_OnlyMappedTagsChange ==
    Reading =>
      \A row \in Rows(cfg) : \A w \in WetOutcomes(row) :
        \A p \in DOMAIN w.fs :
          IF p = w.path /\ Exists(fs, RowPath(row))
          THEN ChangedKeys(fs[RowPath(row)].tags, w.fs[p].tags)
                 \subseteq {NativeKey(CodecOf(p), col) : col \in TagCols(row)}
          ELSE Exists(fs, p) /\ w.fs[p] = fs[p]

\* C2 witness: a row has given a file new values and the file still carries old values
C2_Witness ==
    /\ stats.updated > 0
    /\ \E p \in DOMAIN fs \cap DOMAIN TreeFs(cfg.fmt) :
         /\ fs[p].tags # TreeFs(cfg.fmt)[p].tags
         /\ \E k \in DOMAIN fs[p].tags \cap DOMAIN TreeFs(cfg.fmt)[p].tags :
              fs[p].tags[k] = TreeFs(cfg.fmt)[p].tags[k]

\* C3: the run with dry_run = True leaves every file of the tree as it was: no tag
\* is written and no file is renamed, with or without rename_files.
C3_DryRunLeavesTreeUnchanged == fsDry = TreeFs(cfg.fmt)

\* C3 witness: the dry run has counted a row Updated, with rename_files set, where the
\* run with dry_run = False has written tags and renamed the file
C3_Witness ==
    /\ cfg.rename_files
    /\ statsDry.updated > 0
    /\ stats.renamed > 0
    /\ fs # TreeFs(cfg.fmt)
    /\ fsDry = TreeFs(cfg.fmt)

\* C4: the run with dry_run = True ends with the same six counters as the run with
\* dry_run = False over the same table and tree.
C4_DryRunSameStatistics == statsDry = stats

\* C4, amended: the two runs agree on total, skipped and not_found; the dry run counts
\* Updated every row the other run counts Updated or Failed, and it counts no row
\* Failed and no file renamed.
C4_DryRunStatistics ==
    /\ statsDry.total = stats.total
    /\ statsDry.skipped = stats.skipped
    /\ statsDry.not_found = stats.not_found
    /\ statsDry.updated = stats.updated + stats.failed
    /\ statsDry.failed = 0
    /\ statsDry.renamed = 0

\* C4 witness: the run with dry_run = False has renamed a file and failed on a row
C4_Witness ==
    /\ stats.renamed > 0
    /\ stats.failed > 0
    /\ statsDry.updated = 2

\* C5: the run never leaves the loop by an exception: every row read has been given
\* exactly one of the statuses Skipped, NotFound, Updated, Failed, so the four
\* counters add up to total, which is the number of rows read, and the loop goes on
\* to the next row or to the summary.
C5_EveryRowGetsOneStatus ==
    /\ pc # "crashed"
    /\ stats.total = nrows
    /\ stats.total = stats.skipped + stats.not_found + stats.updated + stats.failed

\* the supported columns of the header are all empty in the row
AllTagsEmpty(row) == \A col \in available_tags(cfg.header) : ~Truthy(Get(row, col))

\* the row counts for total and for counter alone, and touches no file
CountsOnly(w, status, counter) ==
    /\ w.status = status
    /\ w.stats = Count(Count(stats, "total"), counter)
    /\ w.fs = fs

\* C6: a row with a non-empty filename whose supported tag columns are all empty ends
\* Skipped, counting for total and skipped alone, whether or not the filename resolves.
C6_EmptyRowSkipped ==
    Reading =>
      \A row \in Rows(cfg) :
        (Truthy(Get(row, "filename")) /\ AllTagsEmpty(row)) =>
          \A w \in WetOutcomes(row) : CountsOnly(w, "Skipped", "skipped")

\* C6, amended: such a row ends Skipped when its filename is blank or resolves to a
\* file of the index, and NotFound, counting for total and not_found alone, when
\* its filename resolves to none.
C6_EmptyRowSkippedWhenResolved ==
    Reading =>
      \A row \in Rows(cfg) :
        (Truthy(Get(row, "filename")) /\ AllTagsEmpty(row)) =>
          \A w \in WetOutcomes(row) :
            IF RowName(row) = E \/ RowPath(row) # NoPath
            THEN CountsOnly(w, "Skipped", "skipped")
            ELSE CountsOnly(w, "NotFound", "not_found")

\* C6 witness: a table whose rows all name a file of the index, with a title column;
\* a row has been skipped, which here is a row with an empty title
C6_Witness ==
    /\ cfg.table = "cells"
    /\ cfg.header = {"title"}
    /\ stats.skipped > 0
    /\ stats.not_found = 0

\* the file carries value v for column col after the codec of its container wrote it
Applied(content, kind, col, v) ==
    LET key == NativeKey(kind, col)
    IN  IF kind = "m4a" /\ col \in {"track_number", "disc_number"}
        THEN IntParses(v) => (key \in DOMAIN content.tags /\ content.tags[key][1] = IntOf(v))
        ELSE key \in DOMAIN content.tags /\ content.tags[key] = v

\* C8: in the run with dry_run = False a row counted Updated has had every supported
\* column that is not empty in it applied to the file (an M4A track or disc number
\* that is no integer excepted).
C8_UpdatedMeansApplied ==
    Reading =>
      \A row \in Rows(cfg) : \A w \in WetOutcomes(row) :
        w.status = "Updated" =>
          \A col \in TagCols(row) :
            Applied(w.fs[w.path], CodecOf(w.path), col, row[col])

\* the value a record gives for a column; a record has no field for a column the
\* extract codecs do not read
Field(rec, col) == IF col \in DOMAIN rec THEN rec[col] ELSE E

\* the record the extract codec reads from the file at path
ReadBack(fsx, path) == extract_codec(fsx, path, default_tags(path.name)).tags

\* the writes of the update codec for the row on the file the row resolves to, that
\* return without raising
Writes(row) ==
    IF RowPath(row) # NoPath /\ Exists(fs, RowPath(row))
    THEN {o \in update_codec(fs, RowPath(row), row, available_tags(cfg.header), FALSE) :
             ~o.raised}
    ELSE {}

SetsEasyFrame(row) ==
    \E col \in TagCols(row) : col \in DOMAIN mp3_map /\ mp3_map[col] \in DOMAIN EasyID3Frame

Scanned(fsx, recursive) ==
    {p \in DOMAIN fsx : is_audio_file(p.name) /\ (recursive \/ p.dir = "R")}

\* C10: extraction loses no file: every audio file scanned, malformed or not, has a
\* record with its file name, and no record has an empty file name.
C10_EveryScannedFileHasRecord ==
    pc = "extracted" =>
      /\ Len(music_data) = Cardinality(Scanned(fs, cfg.recursive))
      /\ \A p \in Scanned(fs, cfg.recursive) :
           \E i \in 1..Len(music_data) : music_data[i].filename = p.name
      /\ \A i \in 1..Len(music_data) : music_data[i].filename # E

\* the track numbers and the disc numbers the Rename Engine is tried with: numerals
\* with and without padding, an identifier that is no numeral, and no disc number
RenameTracks == {<<"3">>, <<"0", "3">>, X}
RenameDiscs == {None, E, <<"1">>, X}

\* C11: renaming is idempotent: when the Rename Engine has given a file a new name,
\* applying it again to that name with the same track and disc numbers returns the
\* name unchanged and leaves the tree as it is.
C11_RenameIdempotent ==
    \A p \in DOMAIN fs : \A t \in RenameTracks : \A d \in RenameDiscs :
      \A o1 \in rename_file_with_track_number(fs, p, t, FALSE, d) :
        o1.path # p =>
          \A o2 \in rename_file_with_track_number(o1.fs, o1.path, t, FALSE, d) :
            o2.path = o1.path /\ o2.fs = o1.fs

\* C12: a rename whose target name is held by another file is not performed: every
\* file other than the one the row names is still there with its content after the
\* row, and the row leaves no fewer files than it found.
C12_CollisionKeepsBothFiles ==
    Reading =>
      \A row \in Rows(cfg) : \A w \in WetOutcomes(row) :
        /\ Cardinality(DOMAIN w.fs) >= Cardinality(DOMAIN fs)
        /\ \A p \in DOMAIN fs :
             p # RowPath(row) => (Exists(w.fs, p) /\ w.fs[p] = fs[p])

\* the update codec raises on the file the row resolves to
CodecRaises(row) ==
    \E o \in update_codec(fs, RowPath(row), row, available_tags(cfg.header), FALSE) :
       o.raised

\* C13: a rename that raised does not fail the row: a row ends Failed only when its
\* codec raised; a row whose write succeeded ends Updated without counting for
\* failed, and when its file was not renamed it does not count for renamed and the
\* file is still there under its name.
C13_RenameFailureKeepsRowUpdated ==
    Reading =>
      \A row \in Rows(cfg) : \A w \in WetOutcomes(row) :
        /\ w.status = "Failed" => CodecRaises(row)
        /\ w.status = "Updated" =>
             /\ w.stats.failed = stats.failed
             /\ w.stats.updated = stats.updated + 1
             /\ IF w.path = RowPath(row)
                THEN /\ w.stats.renamed = stats.renamed
                     /\ Exists(w.fs, RowPath(row))
                     /\ DOMAIN w.fs = DOMAIN fs
                ELSE w.stats.renamed = stats.renamed + 1

\* C13 witness: a table with only the track_number column, run with rename_files; the
\* row for the first file of the input folder has written its tags, the rename to the
\* name the second file holds has raised, and the row counts Updated and not renamed
C13_Witness ==
    /\ cfg.rename_files
    /\ cfg.header = {"track_number"}
    /\ Exists(fs, Path("R", NameA(cfg.fmt)))
    /\ fs[Path("R", NameA(cfg.fmt))] # TreeFs(cfg.fmt)[Path("R", NameA(cfg.fmt))]
    /\ Exists(fs, Path("R", Name03A(cfg.fmt)))
    /\ stats.updated = 1
    /\ stats.renamed = 0
    /\ stats.failed = 0

\* s[i..j] is a non-empty run of characters of cs
AllIn(s, i, j, cs) == i <= j /\ j <= Len(s) /\ \A k \in i..j : s[k] \in cs

\* the base name is already numbered, in the words of C14
NumberedAsStated(base, disc) ==
    IF Truthy(disc)
    THEN \E i \in 1..Len(base) : \E j \in (i + 2)..Len(base) :
            /\ AllIn(base, 1, i, Digits)
            /\ base[i + 1] = "-"
            /\ AllIn(base, i + 2, j, Digits)
            /\ j < Len(base) /\ base[j + 1] \in Sep
    ELSE \/ \E i \in 1..Len(base) :
               AllIn(base, 1, i, Digits) /\ i < Len(base) /\ base[i + 1] \in Sep
         \/ /\ StartsWith(base, <<"T", "r", "a", "c", "k">>)
            /\ \E i \in 6..Len(base) :
                  AllIn(base, 6, i, Space) /\ i < Len(base) /\ base[i + 1] \in Digits

\* base names the Rename Engine is tried with, besides the names of the tree
RenameBases ==
    { <<"0", "3", " ", "E", "x", "i", "s", "t", "i", "n", "g", " ", "T", "i", "t", "l", "e">>,
      <<"E", "x", "i", "s", "t", "i", "n", "g", " ", "T", "i", "t", "l", "e">>,
      <<"0", "3">>, <<"3", "t">>, <<"0", "3", "_", "t">>, <<"0", "3", "-", "t">>,
      <<"T", "r", "a", "c", "k", " ", "7">>, <<"T", "r", "a", "c", "k", "7">>,
      <<"T", "r", "a", "c", "k", " ", "t">>, <<"t", "r", "a", "c", "k", " ", "7">>,
      <<"1", "-", "0", "3", " ", "t">>, <<"1", "-", "0", "3">>, <<"1", "-", "t">>,
      <<"1", " ", "0", "3", " ", "t">>, <<"t">> }

\* a folder that holds the one file p
OneFile(p) == [q \in {p} |-> Junk]

\* the cases the Rename Engine is tried on, each <<tree, path>>: every file of the
\* tree and every base name of RenameBases alone in a folder
RenameCases ==
    {<<fs, p>> : p \in DOMAIN fs} \cup
    {<<OneFile(Path("R", b \o ExtOf[cfg.fmt])), Path("R", b \o ExtOf[cfg.fmt])>> :
        b \in RenameBases}

\* the loop over the rows has not read a row yet
BeforeRows == pc = "rows" /\ nrows = 0

\* the driver asks the Rename Engine to rename the file of the row
RenameRequested(row) ==
    /\ cfg.rename_files
    /\ "track_number" \in available_tags(cfg.header)
    /\ Truthy(Get(row, "track_number"))

\* the disc number the driver passes for the row
RowDisc(row) ==
    IF "disc_number" \in available_tags(cfg.header) THEN Get(row, "disc_number") ELSE None

\* C14: the Rename Engine returns the path unchanged exactly when the base name is
\* already numbered, in the run with dry_run = True as in the run with dry_run = False.
C14_UnchangedIffNumbered ==
    BeforeRows =>
      \A c \in RenameCases : \A t \in RenameTracks : \A d \in RenameDiscs :
        \A dry_run \in BOOLEAN :
          (\A o \in rename_file_with_track_number(c[1], c[2], t, dry_run, d) :
              o.path = c[2])
            <=> NumberedAsStated(SplitBase(c[2].name), d)

\* C14, amended: a base name already numbered is never renamed; a base name not
\* already numbered is not renamed in the run with dry_run = True, and with
\* dry_run = False it is renamed unless os.rename raises, which leaves the tree as it
\* was, and os.rename does not raise when no file holds the new name.  So a row of the
\* driver whose file is already numbered keeps the name of the file.
C14_UnchangedWhenNumbered ==
    /\ BeforeRows =>
         \A c \in RenameCases : \A t \in RenameTracks : \A d \in RenameDiscs :
           \A dry_run \in BOOLEAN :
             LET outs == rename_file_with_track_number(c[1], c[2], t, dry_run, d)
             IN  IF NumberedAsStated(SplitBase(c[2].name), d) \/ dry_run
                 THEN \A o \in outs : o.path = c[2] /\ o.fs = c[1]
                 ELSE /\ \E o \in outs : o.path # c[2]
                      /\ \A o \in outs : o.path = c[2] => o.fs = c[1]
                      /\ (Cardinality(DOMAIN c[1]) = 1) => \A o \in outs : o.path # c[2]
    /\ Reading =>
         \A row \in Rows(cfg) : \A w \in WetOutcomes(row) :
           (w.status = "Updated" /\ RenameRequested(row)) =>
             IF NumberedAsStated(SplitBase(RowPath(row).name), RowDisc(row))
             THEN w.path = RowPath(row) /\ w.stats.renamed = stats.renamed
             ELSE w.path # RowPath(row) \/ DOMAIN w.fs = DOMAIN fs

\* C14 witness: with rename_files and only the track_number column, the first file of
\* the input folder has been renamed after a track number that is no numeral, and the
\* second, whose name is already numbered, has had its tags written and kept its name
C14_Witness ==
    /\ cfg.rename_files
    /\ cfg.header = {"track_number"}
    /\ ~Exists(fs, Path("R", NameA(cfg.fmt)))
    /\ Exists(fs, Path("R", X \o <<" ">> \o NameA(cfg.fmt)))
    /\ Exists(fs, Path("R", Name03A(cfg.fmt)))
    /\ fs[Path("R", Name03A(cfg.fmt))] # TreeFs(cfg.fmt)[Path("R", Name03A(cfg.fmt))]
    /\ stats.updated = 2
    /\ stats.renamed = 1

\* the prefix of the new name, in the words of C15: the track number, with a zero put
\* before it when it is a single digit, after the disc number and a hyphen when a
\* disc number is supplied
PrefixAsStated(track, disc) ==
    LET padded == IF AllIn(track, 1, Len(track), Digits) /\ Len(track) = 1
                  THEN <<"0">> \o track ELSE track
    IN  IF Truthy(disc) THEN disc \o <<"-">> \o padded ELSE padded

\* C15: whenever the Rename Engine renames a file, the new name is the prefix, a
\* space and the original file name (base name and extension), in the same folder:
\* for every case tried before the first row, and for every row of the driver.
C15_NewNameIsPrefixSpaceName ==
    /\ BeforeRows =>
         \A c \in RenameCases : \A t \in RenameTracks : \A d \in RenameDiscs :
           \A o \in rename_file_with_track_number(c[1], c[2], t, FALSE, d) :
             o.path # c[2] =>
               o.path = Path(c[2].dir, PrefixAsStated(t, d) \o <<" ">> \o c[2].name)
    /\ Reading =>
         \A row \in Rows(cfg) : \A w \in WetOutcomes(row) :
           (w.status = "Updated" /\ w.path # RowPath(row)) =>
             w.path = Path(RowPath(row).dir,
                           PrefixAsStated(row["track_number"], RowDisc(row))
                             \o <<" ">> \o RowPath(row).name)

\* C15 witness: a row with track number 3 and disc number 1 has renamed a file, which
\* now has the prefix 1-03
C15_Witness ==
    /\ stats.renamed > 0
    /\ \E p \in DOMAIN fs :
         /\ p.name = <<"1", "-", "0", "3", " ">> \o NameA(cfg.fmt)
         /\ ~Exists(TreeFs(cfg.fmt), p)

\* C16: with an input folder that is no directory, a table without header or a
\* header without the filename column, the run stops before the loop over the rows:
\* no row is read or counted, and no file is written or renamed.
C16_ConfigurationErrorAborts ==
    cfg.input # "ok" =>
      /\ pc \in {"start", "config_error"}
      /\ nrows = 0
      /\ stats = Stats0
      /\ statsDry = Stats0
      /\ fs = TreeFs(cfg.fmt)
      /\ music_data = <<>>

\* C16 witness: the header has no filename column and the run has stopped on it
C16_Witness == cfg.input = "no_filename" /\ pc = "config_error"

\* the statuses the row can end with on tree fsx
StatusesOn(fsx, row) ==
    {w.status : w \in process_row(file_dict, fsx, Stats0, row, cfg.header, FALSE,
                                  cfg.rename_files)}

\* C17: the status a row ends with does not depend on the rows processed before it:
\* on the tree the earlier rows left, every row can end with the statuses it can end
\* with on the tree the run started from.
C17_RowStatusIndependentOfEarlierRows ==
    Reading =>
      \A row \in Rows(cfg) : StatusesOn(fs, row) = StatusesOn(TreeFs(cfg.fmt), row)

\* the index has been built
Indexed == pc \notin {"start", "config_error"}

\* the first file of the walk that has the name of the i-th
FirstNamed(walk, i) ==
    walk[CHOOSE j \in 1..i :
            /\ walk[j].name = walk[i].name
            /\ \A k \in 1..(j - 1) : walk[k].name # walk[i].name]

\* C18: in recursive mode the bare key of a file name maps to the first file of that
\* name in traversal order, and every audio file is the value of its own key
\* (filename, name of its parent directory).
C18_BareKeyFirstAndEveryFileKeyed ==
    (Indexed /\ cfg.recursive) =>
      LET walk == Walk(cfg.fmt)
      IN  \A i \in 1..Len(walk) :
            is_audio_file(walk[i].name) =>
              /\ HasKey(file_dict, Key(walk[i].name, Bare))
              /\ Item(file_dict, Key(walk[i].name, Bare)) = FirstNamed(walk, i)
              /\ HasKey(file_dict, Key(walk[i].name, DirBase[walk[i].dir]))
              /\ Item(file_dict, Key(walk[i].name, DirBase[walk[i].dir])) = walk[i]

\* the part of C18 about the bare key alone
BareKeyIsFirst ==
    (Indexed /\ cfg.recursive) =>
      LET walk == Walk(cfg.fmt)
      IN  \A i \in 1..Len(walk) :
            is_audio_file(walk[i].name) =>
              /\ HasKey(file_dict, Key(walk[i].name, Bare))
              /\ Item(file_dict, Key(walk[i].name, Bare)) = FirstNamed(walk, i)

\* file names that exercise each pattern of the parser, and none
ParserNames ==
    { <<"0", "1", " ", "-", " ", "M", "y", " ", "S", "o", "n", "g", ".", "m", "p", "3">>,
      <<"T", "r", "a", "c", "k", " ", "7", "_", "A", "n", "o", "t", "h", "e", "r", " ", "O", "n", "e", ".", "f", "l", "a", "c">>,
      <<"j", "u", "s", "t", "t", "i", "t", "l", "e", ".", "m", "p", "3">>,
      <<"T", "r", "a", "c", "k", " ", "0", "1", " ", "-", " ", "t", ".", "m", "p", "3">>,
      <<"C", "D", "1", "-", "0", "2", " ", "b", ".", "m", "p", "3">>,
      <<"D", "i", "s", "c", " ", "1", "-", "0", "2", " ", "b", ".", "m", "p", "3">>,
      <<"D", "i", "s", "c", "2", ".", "0", "5", "_", "c", "-", "d", ".", "o", "g", "g">>,
      <<"0", "1", ".", "t", ".", "m", "p", "3">>,
      <<"7", ".", "m", "p", "3">>,
      <<"0", "1", " ", " ", ".", "m", "p", "3">>,
      <<"T", "r", "a", "c", "k", "7", " ", "x", ".", "m", "p", "3">>,
      <<"C", "D", "1", " ", "0", "2", " ", "b", ".", "m", "p", "3">>,
      <<"a", "_", "b", "-", "c", ".", "d", ".", "m", "p", "3">>,
      <<"1", "-", "0", "3", " ", "t", ".", "m", "p", "3">> }

\* the patterns in the order of the list
PatternsOf(base_name) ==
    <<Pattern1(base_name), Pattern2(base_name), Pattern3(base_name), Pattern4(base_name)>>

\* t is a normalized title: words without separator, one space between them, each
\* with an upper-case first character where it has one and no upper case after it
Normalized(t) ==
    /\ \A i \in 1..Len(t) : t[i] \in Sep => t[i] = " " /\ 1 < i /\ i < Len(t) /\ t[i + 1] # " "
    /\ \A i \in 1..Len(t) :
         IF i = 1 \/ t[i - 1] = " " THEN t[i] = UpperChar(t[i]) ELSE t[i] = LowerChar(t[i])

\* C19: the parser returns the track number and the normalized title of the first
\* pattern of the list that matches the base name, the track number as the digits
\* written in the name, and an empty track number with the normalized base name when
\* no pattern matches; the three names of the specification give the stated results.
C19_ParserFirstMatchWins ==
    /\ BeforeRows =>
         /\ extract_track_and_title_from_filename(<<"0", "1", " ", "-", " ", "M", "y", " ", "S", "o", "n", "g", ".", "m", "p", "3">>) = <<<<"0", "1">>, <<"M", "y", " ", "S", "o", "n", "g">>>>
         /\ extract_track_and_title_from_filename(<<"T", "r", "a", "c", "k", " ", "7", "_", "A", "n", "o", "t", "h", "e", "r", " ", "O", "n", "e", ".", "f", "l", "a", "c">>) = <<<<"7">>, <<"A", "n", "o", "t", "h", "e", "r", " ", "O", "n", "e">>>>
         /\ extract_track_and_title_from_filename(<<"j", "u", "s", "t", "t", "i", "t", "l", "e", ".", "m", "p", "3">>) = <<E, <<"J", "u", "s", "t", "t", "i", "t", "l", "e">>>>
         /\ \A name \in ParserNames :
              LET base_name == SplitBase(name)
                  ps == PatternsOf(base_name)
                  hits == {k \in 1..4 : ps[k].matched}
                  r == extract_track_and_title_from_filename(name)
              IN  /\ Normalized(r[2])
                  /\ IF hits = {} THEN r = <<E, CleanTitle(base_name)>>
                     ELSE LET k == CHOOSE k \in hits : \A j \in hits : k <= j
                          IN  /\ r = <<ps[k].track, CleanTitle(ps[k].title)>>
                              /\ IsDigit(r[1])
                              /\ \E i \in 1..Len(base_name) :
                                   /\ i + Len(r[1]) <= Len(base_name)
                                   /\ SubSeq(base_name, i, i + Len(r[1]) - 1) = r[1]
                                   /\ base_name[i + Len(r[1])] \in Sep
    /\ pc = "extracted" =>
         \A i \in 1..Len(music_data) :
           LET name == music_data[i].filename
               r == extract_track_and_title_from_filename(name)
           IN  /\ Pattern1(SplitBase(name)).matched =>
                    r = <<Pattern1(SplitBase(name)).track,
                          CleanTitle(Pattern1(SplitBase(name)).title)>>
               /\ (\A k \in 1..4 : ~PatternsOf(SplitBase(name))[k].matched) =>
                    r = <<E, CleanTitle(SplitBase(name))>>

\* an untagged file named "03 a" was scanned and its record has the track number and
\* the title the first pattern gives
C19_Witness ==
    /\ pc = "extracted"
    /\ \E i \in 1..Len(music_data) :
         /\ music_data[i].filename = Name03A(cfg.fmt)
         /\ Pattern1(SplitBase(music_data[i].filename)).matched
         /\ music_data[i].track_number = <<"0", "3">>
         /\ music_data[i].title = <<"A">>

\* rec keeps what the codec read into tags: a title and a track number that were read,
\* and every other field
OnlyFillsGaps(tags, rec) ==
    /\ DOMAIN rec = DOMAIN tags
    /\ tags.title # E => rec.title = tags.title
    /\ tags.track_number # E => rec.track_number = tags.track_number
    /\ \A f \in DOMAIN tags \ {"title", "track_number"} : rec[f] = tags[f]

\* C20: in the command-line extraction and in the extraction thread of the GUI, the
\* record of a file keeps the title and the track number the codec read from its
\* tags, and differs from what the codec read in no field other than title and
\* track_number.
C20_ParserOnlyFillsGaps ==
    pc = "extracted" =>
      \A p \in Scanned(fs, cfg.recursive) :
        LET read == extract_codec(fs, p, default_tags(p.name))
            recs == process_file(fs, p, p.name)
            readT == extract_codec(fs, p, thread_tags(p.name))
            sig == MetadataExtractionThread_run(fs, p)
        IN  /\ ~read.raised =>
                 /\ Len(recs) = 1
                 /\ OnlyFillsGaps(read.tags, recs[1])
                 /\ \E i \in 1..Len(music_data) : music_data[i] = recs[1]
            /\ ~readT.raised =>
                 /\ sig.status = "Processed"
                 /\ OnlyFillsGaps(readT.tags, sig.tags)

\* a scanned file carries a title that is not the one its name gives and no track
\* number, its name gives a track number, and its record has the title of the tags
\* and the track number of the name
C20_Witness ==
    /\ pc = "extracted"
    /\ \E p \in Scanned(fs, cfg.recursive) :
         LET read == extract_codec(fs, p, default_tags(p.name))
             parsed == extract_track_and_title_from_filename(p.name)
         IN  /\ ~read.raised
             /\ read.tags.title # E /\ read.tags.title # parsed[2]
             /\ read.tags.track_number = E /\ parsed[1] # E
             /\ \E i \in 1..Len(music_data) :
                  /\ music_data[i].filename = p.name
                  /\ music_data[i].title = read.tags.title
                  /\ music_data[i].track_number = parsed[1]

\* the columns update_m4a_tags writes as a (number, total) pair, with their keys
PairKey == [col \in {"track_number", "disc_number"} |->
              IF col = "track_number" THEN "trkn" ELSE "disk"]

\* the row asks for a number in column col
NumberGiven(row, col) == col \in available_tags(cfg.header) /\ Truthy(Get(row, col))

\* C23: a row that writes a track or disc number to an M4A file leaves the pair
\* (number, total) in the file, the total being the one of the pair the file carried
\* and 0 when it carried none.
C23_M4aPairKeepsTotal ==
    (Reading /\ cfg.fmt = "m4a") =>
      \A row \in Rows(cfg) : \A w \in WetOutcomes(row) :
        w.status = "Updated" =>
          \A col \in DOMAIN PairKey :
            (NumberGiven(row, col) /\ IntParses(row[col])) =>
              LET before == fs[RowPath(row)].tags
                  after == w.fs[w.path].tags
                  key == PairKey[col]
              IN  /\ key \in DOMAIN after
                  /\ after[key] = <<IntOf(row[col]),
                                    IF key \in DOMAIN before THEN before[key][2] ELSE 0>>

\* a file that carried the pair (1, 12) now carries (3, 12), and a file that carried
\* no pair now carries (3, 0)
C23_Witness ==
    /\ cfg.fmt = "m4a"
    /\ \E p \in DOMAIN fs :
         /\ "trkn" \in DOMAIN fs[p].tags
         /\ fs[p].tags["trkn"] = <<3, 12>>
    /\ \E p \in DOMAIN fs :
         /\ "trkn" \in DOMAIN fs[p].tags
         /\ fs[p].tags["trkn"] = <<3, 0>>

\* C24: a row for an M4A file with a track or disc number that is no integer is
\* Updated, not Failed: the pair of that number stays as the file carried it, and
\* every other non-empty supported cell of the row is in the saved file.
C24_M4aInvalidNumberSkipped ==
    (Reading /\ cfg.fmt = "m4a") =>
      \A row \in Rows(cfg) :
        ((\E col \in DOMAIN PairKey : NumberGiven(row, col) /\ ~IntParses(row[col]))
           /\ RowPath(row) # NoPath /\ Opens(fs, RowPath(row), "m4a")) =>
          \A w \in WetOutcomes(row) :
            /\ w.status = "Updated"
            /\ w.stats.updated = stats.updated + 1
            /\ w.stats.failed = stats.failed
            /\ LET before == fs[RowPath(row)].tags
                   after == w.fs[w.path].tags
               IN  \A col \in TagCols(row) :
                     LET key == NativeKey("m4a", col)
                     IN  IF col \in DOMAIN PairKey
                         THEN IF IntParses(row[col])
                              THEN key \in DOMAIN after /\ after[key][1] = IntOf(row[col])
                              ELSE /\ key \in DOMAIN after <=> key \in DOMAIN before
                                   /\ key \in DOMAIN before => after[key] = before[key]
                         ELSE key \in DOMAIN after /\ after[key] = row[col]

\* the untagged file of the input folder, given track "x" and disc "1" in a run with
\* rename_files, has the name that track gives it, the disc pair (1, 0) and no track
\* pair, and its row is counted Updated
C24_Witness ==
    /\ cfg.fmt = "m4a"
    /\ stats.updated = 1 /\ stats.failed = 0
    /\ \E p \in DOMAIN fs :
         /\ p.name = <<"1", "-", "x", " ">> \o Name03A("m4a")
         /\ "disk" \in DOMAIN fs[p].tags
         /\ fs[p].tags["disk"] = <<1, 0>>
         /\ "trkn" \notin DOMAIN fs[p].tags

\* the counters of which a row is to increment exactly one
StatusCounters == {"updated", "failed", "skipped", "not_found"}

\* the counters of st add up
AddUp(st) ==
    /\ st.total = st.updated + st.failed + st.skipped + st.not_found
    /\ st.renamed <= st.updated

\* C26: after every row, total is the number of rows processed and the sum of
\* updated, failed, skipped and not_found, renamed is at most updated, and the next
\* row adds one to total and to exactly one of the four counters.
C26_CountsAddUpAfterEveryRow ==
    /\ stats.total = nrows
    /\ AddUp(stats)
    /\ Reading =>
         \A row \in Rows(cfg) : \A w \in WetOutcomes(row) :
           /\ w.stats.total = stats.total + 1
           /\ Cardinality({c \in StatusCounters : w.stats[c] = stats[c] + 1}) = 1
           /\ Cardinality({c \in StatusCounters : w.stats[c] = stats[c]}) = 3

\* the part of C26 that holds: the counters add up as long as no row has raised
\* outside the try of lines 126-168
CountsAddUpUnlessCrashed ==
    /\ stats.total = nrows
    /\ pc # "crashed" => AddUp(stats)
    /\ Reading =>
         \A row \in Rows(cfg) : \A w \in WetOutcomes(row) :
           w.status # "Crashed" =>
             /\ w.stats.total = stats.total + 1
             /\ Cardinality({c \in StatusCounters : w.stats[c] = stats[c] + 1}) = 1
             /\ Cardinality({c \in StatusCounters : w.stats[c] = stats[c]}) = 3

\* C27: in the run with dry_run = False and rename_files set, the path the index
\* gives for a row is the path of a file that exists when the row is processed.
C27_ResolvedPathExists ==
    (Reading /\ cfg.rename_files) =>
      \A row \in Rows(cfg) :
        (Get(row, "filename") # None /\ RowPath(row) # NoPath) => Exists(fs, RowPath(row))

\* purely numeric track numbers and the disc numbers they are combined with
NumericTracks == {<<"3">>, <<"0", "3">>, <<"1", "2">>, <<"1", "2", "3">>}
NumericDiscs == {<<"1">>, <<"2">>, <<"1", "0">>}

\* the track number the parser reads from the name the Rename Engine gives the file
\* base \o ext for track and disc
ParsedAfterRename(base, track, disc) ==
    extract_track_and_title_from_filename(
        new_filename(base \o ExtOf[cfg.fmt], track, disc))[1]

\* C30: for a base name that is not already numbered and a purely numeric track
\* number, the parser reads the zero-padded track number from the name the Rename
\* Engine produces, without a disc number and with a numeric one.
C30_ParserInvertsRename ==
    BeforeRows =>
      \A base \in RenameBases : \A track \in NumericTracks :
        \A disc \in {None, E} \cup NumericDiscs :
          ~already_numbered(base, disc) =>
            ParsedAfterRename(base, track, disc) = ZFill2(track)

\* the part of C30 that holds: without a disc number the parser reads the zero-padded
\* track number, with one it reads the disc number
ParserReadsTrackWithoutDisc ==
    BeforeRows =>
      \A base \in RenameBases : \A track \in NumericTracks :
        /\ \A disc \in {None, E} :
             ~already_numbered(base, disc) =>
               ParsedAfterRename(base, track, disc) = ZFill2(track)
        /\ \A disc \in NumericDiscs :
             ~already_numbered(base, disc) => ParsedAfterRename(base, track, disc) = disc

\* the fields the filter may output
AudioFields ==
    { <<"t", "i", "t", "l", "e">>,
      <<"a", "r", "t", "i", "s", "t">>,
      <<"a", "l", "b", "u", "m">>,
      <<"a", "l", "b", "u", "m", "_", "a", "r", "t", "i", "s", "t">>,
      <<"g", "e", "n", "r", "e">>,
      <<"t", "r", "a", "c", "k">>,
      <<"d", "a", "t", "e">>,
      <<"c", "o", "m", "m", "e", "n", "t">>,
      <<"c", "o", "m", "p", "o", "s", "e", "r">> }

\* the keys of the allow-list as the specification gives it
AllowListed ==
    { <<"t", "i", "t", "l", "e">>,
      <<"a", "r", "t", "i", "s", "t">>,
      <<"a", "l", "b", "u", "m">>,
      <<"a", "l", "b", "u", "m", "_", "a", "r", "t", "i", "s", "t">>,
      <<"a", "l", "b", "u", "m", "a", "r", "t", "i", "s", "t">>,
      <<"g", "e", "n", "r", "e">>,
      <<"t", "r", "a", "c", "k">>,
      <<"t", "r", "a", "c", "k", "_", "n", "u", "m", "b", "e", "r">>,
      <<"d", "a", "t", "e">>,
      <<"y", "e", "a", "r">>,
      <<"c", "o", "m", "m", "e", "n", "t">>,
      <<"c", "o", "m", "p", "o", "s", "e", "r">>,
      <<"p", "e", "r", "f", "o", "r", "m", "e", "r">> }

\* the filter has returned
Returned == fpc = "returned"

\* the value of item i is not empty once trimmed
NonBlank(i) == video.items[i][2] # E /\ Strip(video.items[i][2]) # E

\* C21: the filter outputs only allow-listed fields, each taken from an allow-listed
\* key of the input: no key of the exclusion set, in any letter case, is a field of
\* the output, performer is output as artist, every value is trimmed and not empty,
\* and the tags title 'X', encoder 'libx264', creation_time '...', performer 'Y'
\* give exactly title 'X', artist 'Y'.
C21_FilterOutputsAllowListedOnly ==
    /\ fpc \in {"loop", "returned"} =>
         \A f \in DOMAIN metadata :
           /\ f \in AudioFields
           /\ Lower(f) \notin exclude_tags
           /\ f # <<"p", "e", "r", "f", "o", "r", "m", "e", "r">>
           /\ metadata[f] # E
           /\ metadata[f] = Strip(metadata[f])
           /\ \E i \in 1..tag_i :
                /\ Lower(video.items[i][1]) \in AllowListed
                /\ Lower(video.items[i][1]) \notin exclude_tags
                /\ metadata[f] = Strip(video.items[i][2])
    /\ Returned =>
         /\ \A i \in 1..Len(video.items) :
              (/\ Lower(video.items[i][1]) = <<"p", "e", "r", "f", "o", "r", "m", "e", "r">>
               /\ NonBlank(i)
               /\ \A j \in (i + 1)..Len(video.items) :
                    Lower(video.items[j][1]) \notin {<<"a", "r", "t", "i", "s", "t">>, <<"p", "e", "r", "f", "o", "r", "m", "e", "r">>}) =>
                 /\ <<"a", "r", "t", "i", "s", "t">> \in DOMAIN metadata
                 /\ metadata[<<"a", "r", "t", "i", "s", "t">>] = Strip(video.items[i][2])
         /\ video.items = ExampleTags =>
              /\ DOMAIN metadata = {<<"t", "i", "t", "l", "e">>, <<"a", "r", "t", "i", "s", "t">>}
              /\ metadata[<<"t", "i", "t", "l", "e">>] = X
              /\ metadata[<<"a", "r", "t", "i", "s", "t">>] = Y

\* the filter has returned the mapping of the documented example
C21_Witness ==
    /\ Returned
    /\ video.items = ExampleTags
    /\ DOMAIN metadata = {<<"t", "i", "t", "l", "e">>, <<"a", "r", "t", "i", "s", "t">>}

\* C22: a tag keyed track or track_number, in any letter case, whose value is not
\* empty is retained: its trimmed value is in the output.
C22_TrackNumberRetained ==
    Returned =>
      \A i \in 1..Len(video.items) :
        (/\ Lower(video.items[i][1]) \in {<<"t", "r", "a", "c", "k">>, <<"t", "r", "a", "c", "k", "_", "n", "u", "m", "b", "e", "r">>}
         /\ NonBlank(i)
         /\ \A j \in 1..Len(video.items) :
              j # i => Lower(video.items[j][1]) \notin {<<"t", "r", "a", "c", "k">>, <<"t", "r", "a", "c", "k", "_", "n", "u", "m", "b", "e", "r">>}) =>
          \E f \in DOMAIN metadata : metadata[f] = Strip(video.items[i][2])

\* the part of C22 that holds: the key track is retained, in any letter case
TrackRetained ==
    Returned =>
      \A i \in 1..Len(video.items) :
        (/\ Lower(video.items[i][1]) = <<"t", "r", "a", "c", "k">>
         /\ NonBlank(i)
         /\ \A j \in 1..Len(video.items) : j # i => Lower(video.items[j][1]) # <<"t", "r", "a", "c", "k">>) =>
          /\ <<"t", "r", "a", "c", "k">> \in DOMAIN metadata
          /\ metadata[<<"t", "r", "a", "c", "k">>] = Strip(video.items[i][2])

\* the items in the order perm gives them
Reordered(items, perm) == [i \in 1..Len(items) |-> items[perm[i]]]

\* C29: the mapping returned is the one returned for the same tags iterated in any
\* other order.
C29_FilterIndependentOfOrder ==
    Returned =>
      \A perm \in Permutations(1..Len(video.items)) :
        extract_audio_relevant_metadata(
            [info |-> video.info, items |-> Reordered(video.items, perm)]) = metadata

\* the part of C29 that holds: the order matters only between items that give the
\* same field a value
OrderMattersOnlyOnCollision ==
    Returned =>
      ((\A i, j \in 1..Len(video.items) :
          (/\ i # j
           /\ InMapping(Lower(video.items[i][1])) /\ InMapping(Lower(video.items[j][1]))
           /\ NonBlank(i) /\ NonBlank(j)) =>
             MappingOf(Lower(video.items[i][1])) # MappingOf(Lower(video.items[j][1])))
        => \A perm \in Permutations(1..Len(video.items)) :
             extract_audio_relevant_metadata(
                 [info |-> video.info, items |-> Reordered(video.items, perm)]) = metadata)

\* an outcome of the GUI driver without its callbacks
WithoutCalls(g) == [fs |-> g.fs, stats |-> g.stats, status |-> g.status, path |-> g.path]

\* the status the GUI reports for the counter a row increments
CallStatus == [c \in StatusCounters |->
                 CASE c = "updated" -> "Updated" [] c = "failed" -> "Failed"
                   [] c = "skipped" -> "Skipped" [] c = "not_found" -> "Not Found"]

\* the outcome g incremented, from st, one counter exactly, and its one callback
\* reports the status of that counter
OneMatchingCall(st, g) ==
    /\ Len(g.calls) = 1
    /\ \E c \in StatusCounters :
         /\ g.stats[c] = st[c] + 1
         /\ \A o \in StatusCounters \ {c} : g.stats[o] = st[o]
         /\ g.calls[1][2] = CallStatus[c]

\* the two drivers are in corresponding places
SamePlace ==
    \/ pc = gui_run.pc
    \/ pc = "done" /\ gui_run.pc = "returned"

\* both drivers are about to read a row
BothReading == Reading /\ gui_run.pc = "rows"

RunsInProgress == {t \in Threads : Running(update_threads[t])}

\* C25: at most one update run is in progress at any time.
C25_AtMostOneUpdateRun == Cardinality(RunsInProgress) <= 1

====
